---- MODULE Spec2Model ----
(***************************************************************************)
(* Request gate of secure-auth-app: CSRF validation (double submit and     *)
(* signed token), the sign-in lockout check over the auth-event table, the *)
(* administrative unlock route, and the fixed-window rate limiter with its *)
(* store-backed and in-process counters.                                   *)
(***************************************************************************)
EXTENDS Integers, Sequences, FiniteSets, TLC

VARIABLES
    now,          \* Date.now() of the server process, in milliseconds
    clientToken,  \* the CSRF token last handed to the client (cookie jar), or NoStr
    csrfReq,      \* the request validateCsrf handled last (pending delivery), or NoReq
    csrfRes,      \* what validateCsrf did with csrfReq
    authEvents,   \* the auth-event table: how many rows of each kind it holds
    dbUp,         \* whether the database answers queries
    pendingLogs,  \* authEventService.log calls started and not yet settled
    signIn,       \* the sign-in requests being handled, one per connection
    started,      \* sign-in requests handled since the process started
    unlockRes,    \* the answer to a POST /api/users/:id/unlock that no sign-in
                  \* attempt has followed yet, or NoUnlock
    redisStore,   \* the counter store behind getRedis(): key -> entry
    redisUrl,     \* whether config.redisUrl is set
    redisInstance,\* the client getRedis() has settled on, "none" before the first call
    redisUp,      \* whether the Redis server answers the ioredis client
    inMemoryStore,\* the limiter's own Map: key -> {count, reset}
    rlRes,        \* what the rate limiter did with the request it handled
                  \* last (pending delivery), or NoRl
    rlWindow,     \* per key, when its current window opened and how many
                  \* requests have arrived in it
    gate,         \* the request travelling through the middleware stack, or NoGate
    authzRes,     \* what an authorization middleware did with the request it
                  \* was called with last, or NoAuthz
    handlers,     \* the concurrent rate-limited requests to one key: where each
                  \* handler stands and what it was answered
    initializationPromise,  \* whether getRedis() has created its promise
    storeRes,     \* the last call made on the in-process stores and what it returned
    timeoutReq,   \* the request guarded by requestTimeout, or NoTimeoutReq
    clientIp,     \* the last request getClientIp was called with, and its result
    incrCall,     \* the incrementRateLimit / incrementLockoutCounter call in progress
    lockReqs,     \* concurrent sign-in requests for one email
    redisCallers, \* concurrent callers of getRedis and the instances constructed
    fetchCall,    \* the client fetcher call in progress
    csrfLog       \* history: the CSRF tokens issued, how often each was accepted,
                  \* and what the session went through

csrfVars == <<clientToken, csrfReq, csrfRes>>

authVars == <<authEvents, dbUp, pendingLogs, signIn, started, unlockRes>>

gateVars == <<gate, authzRes>>

concVars == <<handlers, initializationPromise>>

extVars == <<storeRes, timeoutReq, clientIp, incrCall, lockReqs, redisCallers, fetchCall, csrfLog>>

rateVars == <<redisUrl, redisInstance, redisUp, inMemoryStore, rlRes, rlWindow>>

vars == <<now, clientToken, csrfReq, csrfRes, authEvents, dbUp, pendingLogs, signIn,
          started, unlockRes, redisStore, redisUrl, redisInstance, redisUp,
          inMemoryStore, rlRes, rlWindow, gate, authzRes, handlers,
          initializationPromise, storeRes, timeoutReq, clientIp, incrCall, lockReqs,
          redisCallers, fetchCall, csrfLog>>

-----------------------------------------------------------------------------
(* Bounds of the model *)

\* number of points of the CSRF clock grid after time 0
MaxCsrfTick == 3

\* number of points of the lockout clock grid after time 0
MaxLockTick == 2

\* sign-in requests handled in one run of the process
MaxSignIns == 2

\* number of points of the rate-limit clock grid after time 0
MaxRateTick == 3

\* requests sent to one key in one window beyond the policy's maxRequests
MaxOver == 2

-----------------------------------------------------------------------------
(* Strings.  A string is the sequence of its '.'-separated parts (what     *)
(* String.prototype.split('.') returns); a part is a record.  Two strings  *)
(* are equal byte for byte iff their sequences are equal.                  *)
(*   tag "dec"   canonical decimal digits of n        (Number.toString)    *)
(*   tag "decx"  the digits of n followed by a letter ("1700x")            *)
(*   tag "nan"   letters only ("abc")                                      *)
(*   tag "empty" the empty string                                          *)
(*   tag "ws"    one blank                                                 *)
(*   tag "sig"   64 hex digits: the HMAC-SHA256 under key `key` of the     *)
(*               part <<mtag, n>>; alt "flip" has one bit flipped, alt     *)
(*               "short" has the last hex digit cut off                    *)
(***************************************************************************)

CSRF_MAX_AGE_MS == 60 * 60 * 1000

CsrfSecret == "server-secret"

Keys == {CsrfSecret, "other-secret"}

\* the CSRF clock grid: 0, 1, TTL, TTL+1, 2*TTL, ...
CsrfTimeOf(i) == (i \div 2) * CSRF_MAX_AGE_MS + (i % 2)

CsrfTimes == {CsrfTimeOf(i) : i \in 0..MaxCsrfTick}

Part(tag, n) == [tag |-> tag, n |-> n, mtag |-> "-", key |-> "-", alt |-> "-"]

EmptyPart == Part("empty", 0)

WsPart == Part("ws", 0)

NanPart == Part("nan", 0)

\* Number.prototype.toString(): the canonical decimal string
NumToString(n) == Part("dec", n)

\* crypto.createHmac('sha256', key).update(msg).digest('hex'), msg one part
HmacHex(key, msg) ==
    [tag |-> "sig", n |-> msg.n, mtag |-> msg.tag, key |-> key, alt |-> "ok"]

TsParts ==
    {Part(t, n) : t \in {"dec", "decx"}, n \in CsrfTimes} \cup {NanPart, WsPart, EmptyPart}

SigParts ==
    {[HmacHex(k, m) EXCEPT !.alt = a] :
        k \in Keys, m \in TsParts \ {EmptyPart, WsPart}, a \in {"ok", "flip", "short"}}
    \cup {EmptyPart}

NoStr == <<>>

EmptyStr == <<EmptyPart>>

WsStr == <<WsPart>>

\* String.prototype.trim() === ''
IsBlank(s) == s \in {EmptyStr, WsStr}

\* JavaScript truthiness of a string | undefined
Truthy(s) == s # NoStr /\ s # EmptyStr

RECURSIVE DigitCount(_)
DigitCount(n) == IF n < 10 THEN 1 ELSE 1 + DigitCount(n \div 10)

PartLen(p) ==
    CASE p.tag = "dec"   -> DigitCount(p.n)
      [] p.tag = "decx"  -> DigitCount(p.n) + 1
      [] p.tag = "nan"   -> 3
      [] p.tag = "empty" -> 0
      [] p.tag = "ws"    -> 1
      [] p.tag = "sig"   -> IF p.alt = "short" THEN 63 ELSE 64

RECURSIVE SumLen(_)
SumLen(s) == IF s = <<>> THEN 0 ELSE PartLen(Head(s)) + SumLen(Tail(s))

\* Buffer.from(s).length: the bytes of the parts and of the dots between them
BufferLength(s) == IF s = <<>> THEN 0 ELSE SumLen(s) + Len(s) - 1

\* crypto.timingSafeEqual on two buffers of equal length
TimingSafeEqual(a, b) == a = b

\* parseInt(p, 10): leading digits are read, what follows them is ignored
ParseIntIsNaN(p) == p.tag \notin {"dec", "decx"}

ParseInt(p) == p.n

-----------------------------------------------------------------------------
(* CSRF token engine: middleware/csrf.ts *)

GenerateCsrfToken(t) == <<NumToString(t), HmacHex(CsrfSecret, NumToString(t))>>

\* variant: a timestamp in the future is not refused
VerifySignedToken_NoFutureCheck(token, t) ==
    IF Len(token) # 2 THEN FALSE
    ELSE LET timestamp == token[1]
             signature == token[2]
             tokenAge  == t - ParseInt(timestamp)
             expectedSignature == HmacHex(CsrfSecret, timestamp)
         IN  IF timestamp = EmptyPart \/ signature = EmptyPart THEN FALSE
             ELSE IF ParseIntIsNaN(timestamp) \/ tokenAge > CSRF_MAX_AGE_MS THEN FALSE
             ELSE IF PartLen(signature) # PartLen(expectedSignature) THEN FALSE
             ELSE TimingSafeEqual(signature, expectedSignature)

\* variant: the expected signature is computed over the parsed number, not
\* over the timestamp string as received
VerifySignedToken_SignsParsedNumber(token, t) ==
    IF Len(token) # 2 THEN FALSE
    ELSE LET timestamp == token[1]
             signature == token[2]
             tokenAge  == t - ParseInt(timestamp)
             expectedSignature == HmacHex(CsrfSecret, NumToString(ParseInt(timestamp)))
         IN  IF timestamp = EmptyPart \/ signature = EmptyPart THEN FALSE
             ELSE IF ParseIntIsNaN(timestamp) \/ tokenAge < 0 \/ tokenAge > CSRF_MAX_AGE_MS
                  THEN FALSE
             ELSE IF PartLen(signature) # PartLen(expectedSignature) THEN FALSE
             ELSE TimingSafeEqual(signature, expectedSignature)

VerifySignedToken(token, t) ==
    IF Len(token) # 2 THEN FALSE
    ELSE LET timestamp == token[1]
             signature == token[2]
             tokenAge  == t - ParseInt(timestamp)
             expectedSignature == HmacHex(CsrfSecret, timestamp)
         IN  IF timestamp = EmptyPart \/ signature = EmptyPart THEN FALSE
             ELSE IF ParseIntIsNaN(timestamp) \/ tokenAge < 0 \/ tokenAge > CSRF_MAX_AGE_MS
                  THEN FALSE
             ELSE IF PartLen(signature) # PartLen(expectedSignature) THEN FALSE
             ELSE TimingSafeEqual(signature, expectedSignature)

\* lib/constants.ts getStringCookie: a cookie value is a string or something else
GetStringCookie(c) ==
    IF c.form # "str" \/ IsBlank(c.val) THEN NoStr ELSE c.val

\* lib/constants.ts getStringHeader: a header is a string, a string[] or undefined
GetStringHeader(h) ==
    IF h.form = "str" /\ ~IsBlank(h.val) THEN h.val
    ELSE IF h.form = "arr" THEN h.val
    ELSE NoStr

SafeMethods == {"GET", "HEAD", "OPTIONS"}

Methods == SafeMethods \cup {"POST", "DELETE"}

Passed == [status |-> 0, error |-> "", next |-> TRUE, signed |-> "skipped"]

Rejected(error, signed) == [status |-> 403, error |-> error, next |-> FALSE, signed |-> signed]

\* variant: the cookie comparison runs before the header is required
ValidateCsrf_CookieFirst(req, t) ==
    LET cookieToken == GetStringCookie(req.cookie)
        headerToken == GetStringHeader(req.header)
    IN  IF req.method \in SafeMethods THEN Passed
        ELSE IF Truthy(cookieToken)
             THEN IF BufferLength(cookieToken) # BufferLength(headerToken)
                     \/ ~TimingSafeEqual(cookieToken, headerToken)
                  THEN Rejected("CSRF token mismatch", "skipped")
                  ELSE Passed
        ELSE IF ~Truthy(headerToken) THEN Rejected("CSRF token missing", "skipped")
        ELSE IF ~VerifySignedToken(headerToken, t)
             THEN Rejected("Invalid or expired CSRF token", "rejected")
             ELSE [Passed EXCEPT !.signed = "accepted"]

\* variant: the double-submit comparison stops at the lengths
ValidateCsrf_LengthOnly(req, t) ==
    LET cookieToken == GetStringCookie(req.cookie)
        headerToken == GetStringHeader(req.header)
    IN  IF req.method \in SafeMethods THEN Passed
        ELSE IF ~Truthy(headerToken) THEN Rejected("CSRF token missing", "skipped")
        ELSE IF Truthy(cookieToken)
             THEN IF BufferLength(cookieToken) # BufferLength(headerToken)
                  THEN Rejected("CSRF token mismatch", "skipped")
                  ELSE Passed
        ELSE IF ~VerifySignedToken(headerToken, t)
             THEN Rejected("Invalid or expired CSRF token", "rejected")
             ELSE [Passed EXCEPT !.signed = "accepted"]

\* variant: without a cookie only the shape of the header token is looked at
ValidateCsrf_ShapeOnly(req, t) ==
    LET cookieToken == GetStringCookie(req.cookie)
        headerToken == GetStringHeader(req.header)
    IN  IF req.method \in SafeMethods THEN Passed
        ELSE IF ~Truthy(headerToken) THEN Rejected("CSRF token missing", "skipped")
        ELSE IF Truthy(cookieToken)
             THEN IF BufferLength(cookieToken) # BufferLength(headerToken)
                     \/ ~TimingSafeEqual(cookieToken, headerToken)
                  THEN Rejected("CSRF token mismatch", "skipped")
                  ELSE Passed
        ELSE IF Len(headerToken) # 2
             THEN Rejected("Invalid or expired CSRF token", "rejected")
             ELSE [Passed EXCEPT !.signed = "accepted"]

\* variant: only GET is exempt
ValidateCsrf_GetOnly(req, t) ==
    LET cookieToken == GetStringCookie(req.cookie)
        headerToken == GetStringHeader(req.header)
    IN  IF req.method = "GET" THEN Passed
        ELSE IF ~Truthy(headerToken) THEN Rejected("CSRF token missing", "skipped")
        ELSE IF Truthy(cookieToken)
             THEN IF BufferLength(cookieToken) # BufferLength(headerToken)
                     \/ ~TimingSafeEqual(cookieToken, headerToken)
                  THEN Rejected("CSRF token mismatch", "skipped")
                  ELSE Passed
        ELSE IF ~VerifySignedToken(headerToken, t)
             THEN Rejected("Invalid or expired CSRF token", "rejected")
             ELSE [Passed EXCEPT !.signed = "accepted"]

\* variant: a header token that was accepted before is refused
ValidateCsrf_SingleUse(req, t) ==
    LET cookieToken == GetStringCookie(req.cookie)
        headerToken == GetStringHeader(req.header)
    IN  IF req.method \in SafeMethods THEN Passed
        ELSE IF ~Truthy(headerToken) THEN Rejected("CSRF token missing", "skipped")
        ELSE IF \E g \in csrfLog.issued :
                    headerToken = GenerateCsrfToken(g) /\ csrfLog.uses[g] > 0
             THEN Rejected("Invalid or expired CSRF token", "rejected")
        ELSE IF Truthy(cookieToken)
             THEN IF BufferLength(cookieToken) # BufferLength(headerToken)
                     \/ ~TimingSafeEqual(cookieToken, headerToken)
                  THEN Rejected("CSRF token mismatch", "skipped")
                  ELSE Passed
        ELSE IF ~VerifySignedToken(headerToken, t)
             THEN Rejected("Invalid or expired CSRF token", "rejected")
             ELSE [Passed EXCEPT !.signed = "accepted"]

\* variant: the double-submit path also verifies the signed token
ValidateCsrf_VerifiedDoubleSubmit(req, t) ==
    LET cookieToken == GetStringCookie(req.cookie)
        headerToken == GetStringHeader(req.header)
    IN  IF req.method \in SafeMethods THEN Passed
        ELSE IF ~Truthy(headerToken) THEN Rejected("CSRF token missing", "skipped")
        ELSE IF Truthy(cookieToken)
             THEN IF BufferLength(cookieToken) # BufferLength(headerToken)
                     \/ ~TimingSafeEqual(cookieToken, headerToken)
                  THEN Rejected("CSRF token mismatch", "skipped")
                  ELSE IF ~VerifySignedToken(headerToken, t)
                       THEN Rejected("Invalid or expired CSRF token", "rejected")
                       ELSE [Passed EXCEPT !.signed = "accepted"]
        ELSE IF ~VerifySignedToken(headerToken, t)
             THEN Rejected("Invalid or expired CSRF token", "rejected")
             ELSE [Passed EXCEPT !.signed = "accepted"]

ValidateCsrf(req, t) ==
    LET cookieToken == GetStringCookie(req.cookie)
        headerToken == GetStringHeader(req.header)
    IN  IF req.method \in SafeMethods THEN Passed
        ELSE IF ~Truthy(headerToken) THEN Rejected("CSRF token missing", "skipped")
        ELSE IF Truthy(cookieToken)
             THEN IF BufferLength(cookieToken) # BufferLength(headerToken)
                     \/ ~TimingSafeEqual(cookieToken, headerToken)
                  THEN Rejected("CSRF token mismatch", "skipped")
                  ELSE Passed
        ELSE IF ~VerifySignedToken(headerToken, t)
             THEN Rejected("Invalid or expired CSRF token", "rejected")
             ELSE [Passed EXCEPT !.signed = "accepted"]

-----------------------------------------------------------------------------
(* Requests a client can send *)

Tokens ==
    {<<a, b>> : a \in TsParts, b \in SigParts}
    \cup {<<a>> : a \in TsParts \ {EmptyPart, WsPart}}
    \cup {<<NumToString(0), HmacHex(CsrfSecret, NumToString(0)), NanPart>>}

Undefined == [form |-> "undef", val |-> NoStr]

HeaderValues ==
    {Undefined, [form |-> "arr0", val |-> NoStr]}
    \cup {[form |-> "str", val |-> s] : s \in Tokens \cup {EmptyStr, WsStr}}
    \cup {[form |-> "arr", val |-> s] :
            s \in {EmptyStr, WsStr, GenerateCsrfToken(0), <<NanPart>>}}

\* the cookies sent along with header h when the client holds token c
CookieValues(h, c) ==
    {Undefined, [form |-> "obj", val |-> NoStr]}
    \cup {[form |-> "str", val |-> s] :
            s \in {EmptyStr, WsStr, <<NanPart>>} \cup ({h.val, c} \ {NoStr})}
    \cup {[form |-> "str", val |-> <<h.val[1], [h.val[2] EXCEPT !.alt = a]>>] :
            a \in IF Len(h.val) = 2 /\ h.val[2].tag = "sig" THEN {"flip", "short"} ELSE {}}

NoReq == [method |-> "-", cookie |-> Undefined, header |-> Undefined, at |-> 0]

NoRes == [status |-> 0, error |-> "", next |-> FALSE, signed |-> "skipped"]

-----------------------------------------------------------------------------
(* Actions of the CSRF layer *)

\* GET /api/auth/csrf (and /me): setCsrfToken hands a fresh token to the client
GetCsrf ==
    /\ csrfReq = NoReq
    /\ clientToken' = GenerateCsrfToken(now)
    /\ UNCHANGED <<extVars, concVars, gateVars, now, csrfReq, csrfRes, authVars, redisStore, rateVars>>

\* a request reaches validateCsrf
CsrfRequest ==
    /\ csrfReq = NoReq
    /\ \E m \in Methods, h \in HeaderValues :
         \E c \in CookieValues(h, clientToken) :
            LET req == [method |-> m, cookie |-> c, header |-> h, at |-> now]
            IN  /\ csrfReq' = req
                /\ csrfRes' = ValidateCsrf(req, now)
    /\ UNCHANGED <<extVars, concVars, gateVars, now, clientToken, authVars, redisStore, rateVars>>

\* the response (or the downstream handler's) has gone out
CsrfDone ==
    /\ csrfReq # NoReq
    /\ csrfReq' = NoReq
    /\ csrfRes' = NoRes
    /\ UNCHANGED <<extVars, concVars, gateVars, now, clientToken, authVars, redisStore, rateVars>>

\* time passes on the CSRF clock grid
CsrfTick ==
    /\ csrfReq = NoReq
    /\ \E t \in CsrfTimes : t > now /\ now' = t
    /\ UNCHANGED <<extVars, concVars, gateVars, csrfVars, authVars, redisStore, rateVars>>

CsrfInit ==
    /\ clientToken = NoStr
    /\ csrfReq = NoReq
    /\ csrfRes = NoRes

NextCsrf == GetCsrf \/ CsrfRequest \/ CsrfDone \/ CsrfTick

-----------------------------------------------------------------------------
(* Counter store: lib/redis.ts.  A key is <<namespace, route, identity>>,  *)
(* the string namespace:route:identity (lockout keys have no route).       *)

Emails == {"ann@example.com", "bob@example.com"}

RlKey(route, id) == <<"rl", route, id>>

LockoutKey(email) == <<"lockout", "", email>>

\* the keys POST /:id/unlock resets for a user with this email
UnlockKeys(email) ==
    {RlKey("/api/auth/signin", email), RlKey("/api/auth/signup", email), LockoutKey(email)}

NoEntry == [value |-> EmptyPart, expiresAt |-> 0]

\* RedisLike.del
RedisDel(store, key) == [store EXCEPT ![key] = NoEntry]

\* resetRateLimit(key)
ResetRateLimit(store, key) == RedisDel(store, key)

-----------------------------------------------------------------------------
(* Sign-in with account lockout: routes/auth.ts, services/authEvent.service.ts *)

LOCKOUT_MAX_ATTEMPTS == 5

LOCKOUT_WINDOW_MINUTES == 15

LockoutWindowMs == LOCKOUT_WINDOW_MINUTES * 60 * 1000

\* the lockout clock grid: 0, 1, W+1, W+2, 2*W+2, ... so that a row written
\* at 1 lies exactly LockoutWindowMs before the check made at W+1
LockTimeOf(i) == (i \div 2) * (LockoutWindowMs + 1) + (i % 2)

LockTimes == {LockTimeOf(i) : i \in 0..MaxLockTick}

ReqIds == {"c1"}

EventTypes == {"SIGN_IN", "SIGN_IN_FAILED"}

\* a row of the table, without its id
Row(email, eventType, createdAt) == <<email, eventType, createdAt>>

RowKinds == Emails \X EventTypes \X LockTimes

RECURSIVE SumOver(_, _)
SumOver(f, S) ==
    IF S = {} THEN 0
    ELSE LET x == CHOOSE y \in S : TRUE IN f[x] + SumOver(f, S \ {x})

\* prisma.authEvent.count({ where: { email, eventType, createdAt: { gte: since } } })
CountRows(rows, email, eventType, since) ==
    SumOver(rows, {k \in RowKinds : k[1] = email /\ k[2] = eventType /\ k[3] >= since})

\* the times of the failure rows of an email
FailureTimes(rows, email) ==
    {k[3] : k \in {x \in RowKinds : x[1] = email /\ x[2] = "SIGN_IN_FAILED" /\ rows[x] > 0}}

Earliest(times) == CHOOSE x \in times : \A y \in times : x <= y

\* the failures of the window current at time t, when a window opens with the
\* first failure, lasts windowMs (its last instant included) and the first
\* failure after it opens the next one
RECURSIVE WindowCount(_, _, _, _)
WindowCount(rows, email, times, t) ==
    IF times = {} THEN 0
    ELSE LET start == Earliest(times)
         IN  IF t <= start + LockoutWindowMs
             THEN CountRows(rows, email, "SIGN_IN_FAILED", start)
             ELSE WindowCount(rows, email, {x \in times : x > start + LockoutWindowMs}, t)

\* prisma.authEvent.create
InsertRow(rows, row) == [rows EXCEPT ![row] = @ + 1]

\* variant: the query's exception reaches the caller
GetFailedAttempts_NoCatch(rows, up, email, since) ==
    IF up
    THEN [count |-> CountRows(rows, email, "SIGN_IN_FAILED", since), thrown |-> FALSE]
    ELSE [count |-> 0, thrown |-> TRUE]

\* authEventService.getFailedAttempts: the count, and whether it threw
GetFailedAttempts(rows, up, email, since) ==
    IF up
    THEN [count |-> CountRows(rows, email, "SIGN_IN_FAILED", since), thrown |-> FALSE]
    ELSE [count |-> 0, thrown |-> FALSE]

\* variant: the threshold is compared with > instead of >=
IsLocked_OffByOne(failedAttempts) == failedAttempts > LOCKOUT_MAX_ATTEMPTS

\* routes/auth.ts: failedAttempts >= LOCKOUT_MAX_ATTEMPTS
IsLocked(failedAttempts) == failedAttempts >= LOCKOUT_MAX_ATTEMPTS

\* authService.signIn: a session for the right password, an error otherwise
AuthServiceSignIn(passwordOk) == IF passwordOk THEN "session" ELSE "throws"

Idle ==
    [pc |-> "idle", email |-> "", passwordOk |-> FALSE, failedAttempts |-> 0,
     recorded |-> 0, storeDown |-> FALSE, verified |-> FALSE, status |-> 0,
     error |-> "", afterUnlock |-> FALSE, inWindow |-> 0]

LogKinds == Emails \X EventTypes

NoUnlock == [status |-> 0, next |-> FALSE, email |-> ""]

\* POST /api/auth/signin, up to the lockout decision (the request has passed
\* rateLimit, validateCsrf and signInSchema.parse)
SignInStart(r, email, passwordOk) ==
    /\ signIn[r].pc = "idle"
    /\ started < MaxSignIns
    /\ LET since  == now - LockoutWindowMs
           failed == GetFailedAttempts(authEvents, dbUp, email, since)
           base   == [Idle EXCEPT !.email = email, !.passwordOk = passwordOk,
                                  !.failedAttempts = failed.count,
                                  !.recorded = CountRows(authEvents, email, "SIGN_IN_FAILED", since),
                                  !.storeDown = ~dbUp,
                                  !.afterUnlock = (unlockRes.email = email),
                                  !.inWindow = WindowCount(authEvents, email,
                                                  FailureTimes(authEvents, email), now)]
       IN  signIn' = [signIn EXCEPT ![r] =
              IF failed.thrown
              THEN [base EXCEPT !.pc = "done", !.status = 500,
                                !.error = "Something went wrong"]
              ELSE IF IsLocked(failed.count)
              THEN [base EXCEPT !.pc = "done", !.status = 429,
                                !.error = "Account temporarily locked"]
              ELSE [base EXCEPT !.pc = "verify"]]
    /\ started' = started + 1
    /\ unlockRes' = NoUnlock
    /\ UNCHANGED <<extVars, concVars, gateVars, now, csrfVars, authEvents, dbUp, pendingLogs, redisStore, rateVars>>

\* variant: the handler awaits the log write and fails when it fails
SignInResponse_AwaitsLog(result, up) ==
    IF ~up THEN [status |-> 500, error |-> "Something went wrong"]
    ELSE IF result = "session" THEN [status |-> 200, error |-> ""]
    ELSE [status |-> 401, error |-> "Invalid credentials"]

\* what the handler answers once authService.signIn has settled: the log call
\* is started with void and not awaited, so whether the table can be written
\* (up) plays no part
SignInResponse(result, up) ==
    IF result = "session" THEN [status |-> 200, error |-> ""]
    ELSE [status |-> 401, error |-> "Invalid credentials"]

\* authService.signIn settles: the event is logged without being awaited and
\* the session or the authentication error goes to the client
SignInVerify(r) ==
    /\ signIn[r].pc = "verify"
    /\ LET e      == signIn[r].email
           result == AuthServiceSignIn(signIn[r].passwordOk)
           k      == <<e, IF result = "session" THEN "SIGN_IN" ELSE "SIGN_IN_FAILED">>
           answer == SignInResponse(result, dbUp)
       IN  /\ pendingLogs' = [pendingLogs EXCEPT ![k] = @ + 1]
           /\ signIn' = [signIn EXCEPT ![r] =
                  [@ EXCEPT !.pc = "done", !.verified = TRUE,
                            !.status = answer.status, !.error = answer.error]]
    /\ UNCHANGED <<extVars, concVars, gateVars, now, csrfVars, authEvents, dbUp, started, unlockRes, redisStore, rateVars>>

\* the response has gone out and the connection takes the next request
SignInDone(r) ==
    /\ signIn[r].pc = "done"
    /\ signIn' = [signIn EXCEPT ![r] = Idle]
    /\ UNCHANGED <<extVars, concVars, gateVars, now, csrfVars, authEvents, dbUp, pendingLogs, started, unlockRes, redisStore, rateVars>>

\* authEventService.log: prisma.authEvent.create succeeds
LogWritten(k) ==
    /\ pendingLogs[k] > 0
    /\ dbUp
    /\ pendingLogs' = [pendingLogs EXCEPT ![k] = @ - 1]
    /\ authEvents' = InsertRow(authEvents, Row(k[1], k[2], now))
    /\ UNCHANGED <<extVars, concVars, gateVars, now, csrfVars, dbUp, signIn, started, unlockRes, redisStore, rateVars>>

\* authEventService.log: prisma.authEvent.create throws, the error is logged
LogFailed(k) ==
    /\ pendingLogs[k] > 0
    /\ ~dbUp
    /\ pendingLogs' = [pendingLogs EXCEPT ![k] = @ - 1]
    /\ UNCHANGED <<extVars, concVars, gateVars, now, csrfVars, authEvents, dbUp, signIn, started, unlockRes, redisStore, rateVars>>

\* the database becomes unreachable, or reachable again
DbToggle ==
    /\ dbUp' = ~dbUp
    /\ UNCHANGED <<extVars, concVars, gateVars, now, csrfVars, authEvents, pendingLogs, signIn, started, unlockRes, redisStore, rateVars>>

\* time passes on the lockout clock grid
LockTick ==
    /\ \E t \in LockTimes : t > now /\ now' = t
    /\ UNCHANGED <<extVars, concVars, gateVars, csrfVars, authVars, redisStore, rateVars>>

-----------------------------------------------------------------------------
(* Administrative unlock: routes/users.ts, middleware/authorization.ts *)

NoUser == "-"

Callers == {NoUser, "admin-id"}

UserEmail(id) == IF id = "ann-id" THEN "ann@example.com" ELSE "bob@example.com"

\* authorizeRole(requiredRole): no role field exists, nobody is let through
AuthorizeRole(user) ==
    IF user = NoUser
    THEN [status |-> 401, next |-> FALSE]
    ELSE [status |-> 403, next |-> FALSE]

RECURSIVE ResetAll(_, _)
ResetAll(store, keys) ==
    IF keys = {} THEN store
    ELSE LET k == CHOOSE x \in keys : TRUE
         IN  ResetAll(ResetRateLimit(store, k), keys \ {k})

\* the handler of POST /:id/unlock
UnlockHandler(store, email) == ResetAll(store, UnlockKeys(email))

\* POST /api/users/:id/unlock from the authorization stage on (requireAuth,
\* rateLimit and validateCsrf have passed), while no sign-in is being handled
UnlockRequest(caller, id) ==
    /\ \A r \in ReqIds : signIn[r].pc = "idle"
    /\ LET auth == AuthorizeRole(caller)
       IN  /\ unlockRes' = [status |-> IF auth.next THEN 200 ELSE auth.status,
                            next |-> auth.next, email |-> UserEmail(id)]
           /\ redisStore' = IF auth.next THEN UnlockHandler(redisStore, UserEmail(id))
                            ELSE redisStore
    /\ UNCHANGED <<extVars, concVars, gateVars, now, csrfVars, authEvents, dbUp, pendingLogs, signIn, started, rateVars>>

EmptyTable == [k \in RowKinds |-> 0]

\* the table outlives the process: at start it may hold the failure rows of up
\* to LOCKOUT_MAX_ATTEMPTS earlier failed sign-ins for one email
PriorTables ==
    {[EmptyTable EXCEPT ![Row(e, "SIGN_IN_FAILED", 0)] = n] :
        e \in Emails, n \in 0..LOCKOUT_MAX_ATTEMPTS}

AuthInit ==
    /\ authEvents \in PriorTables
    /\ started = 0
    /\ dbUp = TRUE
    /\ pendingLogs = [k \in LogKinds |-> 0]
    /\ signIn = [r \in ReqIds |-> Idle]
    /\ unlockRes = NoUnlock

NextSignIn ==
    \/ \E r \in ReqIds, e \in Emails, ok \in BOOLEAN : SignInStart(r, e, ok)
    \/ \E r \in ReqIds : SignInVerify(r)
    \/ \E r \in ReqIds : SignInDone(r)
    \/ \E k \in LogKinds : LogWritten(k)
    \/ \E k \in LogKinds : LogFailed(k)
    \/ DbToggle
    \/ LockTick
    \/ \E c \in Callers, id \in {"ann-id", "bob-id"} : UnlockRequest(c, id)

-----------------------------------------------------------------------------
(* Counter store clients: lib/redis.ts.  The value of an entry is the      *)
(* decimal string of its count.                                            *)

\* the lifetime InMemoryRedis.incr gives a new entry: now + 60000
InMemoryRedisDefaultTtlMs == 60000

\* marks an entry of the Redis server that has no expiry
NoTtl == 0 - 1

\* variant: the incremented value is returned and not stored
InMemoryRedisIncr_NoWriteBack(store, key, t) ==
    LET existing == store[key]
    IN  IF existing # NoEntry /\ existing.expiresAt > t
        THEN LET newValue == ParseInt(existing.value) + 1
             IN  [store |-> store, count |-> newValue]
        ELSE [store |-> [store EXCEPT ![key] =
                            [value |-> NumToString(1),
                             expiresAt |-> t + InMemoryRedisDefaultTtlMs]],
              count |-> 1]

\* InMemoryRedis.incr: the store after the call and the number returned
InMemoryRedisIncr(store, key, t) ==
    LET existing == store[key]
    IN  IF existing # NoEntry /\ existing.expiresAt > t
        THEN LET newValue == ParseInt(existing.value) + 1
             IN  [store |-> [store EXCEPT ![key].value = NumToString(newValue)],
                  count |-> newValue]
        ELSE [store |-> [store EXCEPT ![key] =
                            [value |-> NumToString(1),
                             expiresAt |-> t + InMemoryRedisDefaultTtlMs]],
              count |-> 1]

\* InMemoryRedis.expire
InMemoryRedisExpire(store, key, seconds, t) ==
    IF store[key] # NoEntry
    THEN [store EXCEPT ![key].expiresAt = t + seconds * 1000]
    ELSE store

\* whether the Redis server still holds the key at time t
RedisHolds(store, key, t) ==
    /\ store[key] # NoEntry
    /\ store[key].expiresAt = NoTtl \/ store[key].expiresAt > t

\* IORedisWrapper.incr: INCR adds one to a held key and keeps its expiry, and
\* creates a key it does not hold with value 1 and no expiry
IORedisIncr(store, key, t) ==
    IF RedisHolds(store, key, t)
    THEN LET newValue == ParseInt(store[key].value) + 1
         IN  [store |-> [store EXCEPT ![key].value = NumToString(newValue)],
              count |-> newValue]
    ELSE [store |-> [store EXCEPT ![key] =
                        [value |-> NumToString(1), expiresAt |-> NoTtl]],
          count |-> 1]

\* IORedisWrapper.expire: EXPIRE key seconds
IORedisExpire(store, key, seconds, t) ==
    IF RedisHolds(store, key, t)
    THEN [store EXCEPT ![key].expiresAt = t + seconds * 1000]
    ELSE store

\* getRedis(): the client in use after the call; connects tells whether
\* wrapper.connect(config.redisUrl) succeeds when it is tried
GetRedis(instance, url, connects) ==
    IF instance # "none" THEN instance
    ELSE IF url
         THEN IF connects THEN "ioredis" ELSE "memory"
         ELSE "memory"

RedisIncr(instance, store, key, t) ==
    IF instance = "ioredis" THEN IORedisIncr(store, key, t)
    ELSE InMemoryRedisIncr(store, key, t)

RedisExpire(instance, store, key, seconds, t) ==
    IF instance = "ioredis" THEN IORedisExpire(store, key, seconds, t)
    ELSE InMemoryRedisExpire(store, key, seconds, t)

\* variant: the expiry is set again on every increment
IncrementRateLimit_AlwaysExpire(instance, store, key, windowSeconds, t) ==
    LET r == RedisIncr(instance, store, key, t)
    IN  [count |-> r.count,
         store |-> RedisExpire(instance, r.store, key, windowSeconds, t)]

\* incrementRateLimit(key, windowSeconds), its two calls answered one after
\* the other by a store that does not fail
IncrementRateLimit(instance, store, key, windowSeconds, t) ==
    LET r == RedisIncr(instance, store, key, t)
    IN  [count |-> r.count,
         store |-> IF r.count = 1
                   THEN RedisExpire(instance, r.store, key, windowSeconds, t)
                   ELSE r.store]

-----------------------------------------------------------------------------
(* Rate limiter: middleware/rateLimit.ts *)

Limiters == {"rateLimit", "monitoringRateLimit"}

\* config.auth.rateLimit, and the literal options of monitoringRateLimit
Options(limiter) ==
    IF limiter = "rateLimit"
    THEN [windowMs |-> 60 * 1000, maxRequests |-> 5]
    ELSE [windowMs |-> 60 * 1000, maxRequests |-> 30]

\* req.path of a route behind each limiter
PathOf(limiter) == IF limiter = "rateLimit" THEN "/signin" ELSE "/"

Ips == {"10.0.0.1"}

RateKeys == {RlKey(PathOf(l), ip) : l \in Limiters, ip \in Ips}

\* the rate-limit clock grid: 0, 1, W, W+1, 2*W, ... for the 60 s window
RateTimeOf(i) == (i \div 2) * (60 * 1000) + (i % 2)

RateTimes == {RateTimeOf(i) : i \in 0..MaxRateTick}

NoMemEntry == [count |-> 0, reset |-> 0]

\* Math.ceil(a / b) for positive integers
Ceil(a, b) == (a + b - 1) \div b

Max(a, b) == IF a > b THEN a ELSE b

\* variant: the request that reaches maxRequests is already refused
InMemoryRateLimit_AtLimit(mem, key, windowMs, maxRequests, t) ==
    LET entry == mem[key]
    IN  IF entry = NoMemEntry \/ entry.reset < t
        THEN [mem |-> [mem EXCEPT ![key] = [count |-> 1, reset |-> t + windowMs]],
              allowed |-> TRUE, count |-> 1, resetIn |-> windowMs]
        ELSE LET count == entry.count + 1
             IN  [mem |-> [mem EXCEPT ![key].count = count],
                  allowed |-> ~(count >= maxRequests),
                  count |-> count, resetIn |-> entry.reset - t]

\* variant: a new fallback entry continues the count the store holds
InMemoryRateLimit_SeededFromStore(mem, key, windowMs, maxRequests, t) ==
    LET entry == mem[key]
        seed  == IF redisStore[key] = NoEntry THEN 0 ELSE ParseInt(redisStore[key].value)
    IN  IF entry = NoMemEntry \/ entry.reset < t
        THEN [mem |-> [mem EXCEPT ![key] = [count |-> seed + 1, reset |-> t + windowMs]],
              allowed |-> ~(seed + 1 > maxRequests), count |-> seed + 1,
              resetIn |-> windowMs]
        ELSE LET count == entry.count + 1
             IN  [mem |-> [mem EXCEPT ![key].count = count],
                  allowed |-> ~(count > maxRequests),
                  count |-> count, resetIn |-> entry.reset - t]

\* inMemoryRateLimit(key, windowMs, maxRequests): the Map after the call and
\* the object returned
InMemoryRateLimit(mem, key, windowMs, maxRequests, t) ==
    LET entry == mem[key]
    IN  IF entry = NoMemEntry \/ entry.reset < t
        THEN [mem |-> [mem EXCEPT ![key] = [count |-> 1, reset |-> t + windowMs]],
              allowed |-> TRUE, count |-> 1, resetIn |-> windowMs]
        ELSE LET count == entry.count + 1
             IN  [mem |-> [mem EXCEPT ![key].count = count],
                  allowed |-> ~(count > maxRequests),
                  count |-> count, resetIn |-> entry.reset - t]

NoRl ==
    [key |-> <<>>, limiter |-> "", path |-> "", next |-> FALSE, status |-> 0,
     error |-> "", count |-> 0, limit |-> 0, remaining |-> 0, retryAfter |-> 0,
     ordinal |-> 0, opened |-> FALSE, afterExhausted |-> FALSE, windowLeft |-> 0]

\* the response of the middleware createRateLimiter(options) returns
Limited(count, maxRequests, retryAfter) ==
    [NoRl EXCEPT !.status = 429, !.error = "Too many requests", !.count = count,
                 !.limit = maxRequests, !.remaining = 0, !.retryAfter = retryAfter]

Let(count, maxRequests) ==
    [NoRl EXCEPT !.next = TRUE, !.count = count, !.limit = maxRequests,
                 !.remaining = Max(0, maxRequests - count)]

\* the window bookkeeping of a key: a window opens with the first request and
\* lasts windowMs; the instant start + windowMs is the last of the window on
\* the in-process path and the first after it on the store-backed path
NoWindow == [start |-> 0, seen |-> 0, exhausted |-> FALSE]

WindowOver(w, path, windowMs, t) ==
    \/ w.seen = 0
    \/ path = "process" /\ t > w.start + windowMs
    \/ path = "store" /\ t >= w.start + windowMs

\* the try block around incrementRateLimit: whether it threw, the count it
\* returned and the store it left.  An ioredis client throws when the server
\* does not answer; drops tells that the server stops answering between the
\* incr and the expire of a first increment
TryIncrementRateLimit(instance, store, key, windowSeconds, t, up, drops) ==
    IF instance = "ioredis" /\ ~up
    THEN [thrown |-> TRUE, count |-> 0, store |-> store]
    ELSE IF drops
    THEN [thrown |-> TRUE, count |-> 0, store |-> RedisIncr(instance, store, key, t).store]
    ELSE LET r == IncrementRateLimit(instance, store, key, windowSeconds, t)
         IN  [thrown |-> FALSE, count |-> r.count, store |-> r.store]

\* the middleware returned by createRateLimiter(options), for a request from
\* ip to the limiter's route
RateLimit(limiter, ip, connects, drops) ==
    /\ rlRes = NoRl
    /\ connects => redisUp
    /\ LET windowMs      == Options(limiter).windowMs
           maxRequests   == Options(limiter).maxRequests
           windowSeconds == Ceil(windowMs, 1000)
           key           == RlKey(PathOf(limiter), ip)
           instance      == GetRedis(redisInstance, redisUrl, connects)
           try           == TryIncrementRateLimit(instance, redisStore, key,
                                                  windowSeconds, now, redisUp, drops)
           result        == InMemoryRateLimit(inMemoryStore, key, windowMs, maxRequests, now)
           path          == IF ~redisUrl THEN "process"
                            ELSE IF try.thrown THEN "fallback" ELSE "store"
           w             == rlWindow[key]
           opened        == WindowOver(w, path, windowMs, now)
           ordinal       == IF opened THEN 1 ELSE w.seen + 1
           start         == IF opened THEN now ELSE w.start
           ghost(res)    == [res EXCEPT !.key = key, !.limiter = limiter, !.path = path,
                                        !.ordinal = ordinal, !.opened = opened,
                                        !.afterExhausted = opened /\ w.exhausted,
                                        !.windowLeft = start + windowMs - now]
       IN  /\ drops => /\ redisUrl
                       /\ instance = "ioredis"
                       /\ redisUp
                       /\ RedisIncr(instance, redisStore, key, now).count = 1
           /\ rlWindow' = [rlWindow EXCEPT ![key] =
                  [start |-> start, seen |-> ordinal, exhausted |-> ordinal > maxRequests]]
           /\ redisUp' = (redisUp /\ ~drops)
           /\ IF redisUrl /\ ~try.thrown
              THEN /\ try.count <= maxRequests + MaxOver
                   /\ redisInstance' = instance
                   /\ redisStore' = try.store
                   /\ rlRes' = ghost(IF try.count > maxRequests
                                     THEN Limited(try.count, maxRequests, windowSeconds)
                                     ELSE Let(try.count, maxRequests))
                   /\ UNCHANGED inMemoryStore
              ELSE /\ result.count <= maxRequests + MaxOver
                   /\ inMemoryStore' = result.mem
                   /\ rlRes' = ghost(IF ~result.allowed
                                     THEN Limited(result.count, maxRequests,
                                                  Ceil(result.resetIn, 1000))
                                     ELSE Let(result.count, maxRequests))
                   /\ IF redisUrl
                      THEN redisInstance' = instance /\ redisStore' = try.store
                      ELSE UNCHANGED <<redisInstance, redisStore>>
    /\ UNCHANGED <<extVars, concVars, gateVars, now, csrfVars, authVars, redisUrl>>

\* a request handled while the store, if one is configured, answers
RateLimitRequest(limiter, ip, connects) == RateLimit(limiter, ip, connects, FALSE)

\* a request handled while the configured store may fail
RateLimitFaulty(ip, connects, drops) == RateLimit("rateLimit", ip, connects, drops)

\* the Redis server becomes unreachable, or reachable again
RedisToggle ==
    /\ rlRes = NoRl
    /\ redisUp' = ~redisUp
    /\ UNCHANGED <<extVars, concVars, gateVars, now, csrfVars, authVars, redisStore, redisUrl, redisInstance,
                   inMemoryStore, rlRes, rlWindow>>

\* the response has gone out, or the next middleware has taken over
RateLimitDone ==
    /\ rlRes # NoRl
    /\ rlRes' = NoRl
    /\ UNCHANGED <<extVars, concVars, gateVars, now, csrfVars, authVars, redisStore, redisUrl, redisInstance,
                   redisUp, inMemoryStore, rlWindow>>

\* the setInterval callback: entries whose reset has passed leave the Map
Sweep ==
    /\ rlRes = NoRl
    /\ \E k \in RateKeys : inMemoryStore[k] # NoMemEntry /\ inMemoryStore[k].reset < now
    /\ inMemoryStore' = [k \in RateKeys |->
           IF inMemoryStore[k].reset < now THEN NoMemEntry ELSE inMemoryStore[k]]
    /\ UNCHANGED <<extVars, concVars, gateVars, now, csrfVars, authVars, redisStore, redisUrl, redisInstance,
                   redisUp, rlRes, rlWindow>>

\* time passes on the rate-limit clock grid
RateTick ==
    /\ rlRes = NoRl
    /\ \E t \in RateTimes : t > now /\ now' = t
    /\ UNCHANGED <<extVars, concVars, gateVars, csrfVars, authVars, redisStore, rateVars>>

NextRate ==
    \/ \E l \in Limiters, ip \in Ips, connects \in BOOLEAN : RateLimitRequest(l, ip, connects)
    \/ RateLimitDone
    \/ Sweep
    \/ RateTick

NextFallback ==
    \/ \E ip \in Ips, connects \in BOOLEAN, drops \in BOOLEAN :
           RateLimitFaulty(ip, connects, drops)
    \/ RateLimitDone
    \/ Sweep
    \/ RateTick

\* the same, with a store that also comes back
NextOutage ==
    \/ \E ip \in Ips, connects \in BOOLEAN, drops \in BOOLEAN :
           RateLimitFaulty(ip, connects, drops)
    \/ RedisToggle
    \/ RateLimitDone
    \/ Sweep
    \/ RateTick
    \/ RedisToggle

-----------------------------------------------------------------------------
(* Request gate: index.ts, routes/*.ts, middleware/auth.ts,                *)
(* middleware/authorization.ts.  A route is "METHOD path".                 *)

\* app.use(...) in index.ts, in registration order
GlobalStages ==
    <<"httpLogger", "helmet", "cors", "express.json", "cookieParser", "requestTimeout">>

\* the middleware registered for a route after the global ones: router.use
\* first, then the route's own list, then its handler
RouteStages(route) ==
    CASE route = "POST /api/auth/signin"         -> <<"rateLimit", "validateCsrf", "handler">>
      [] route = "POST /api/auth/signout"        -> <<"validateCsrf", "handler">>
      [] route = "GET /api/users/:id"            -> <<"requireAuth", "handler">>
      [] route = "PATCH /api/users/:id"          ->
            <<"requireAuth", "validateCsrf", "authorizeSelfOrRole", "handler">>
      [] route = "DELETE /api/users/:id"         ->
            <<"requireAuth", "validateCsrf", "authorizeSelfOrRole", "handler">>
      [] route = "POST /api/users/:id/unlock"    ->
            <<"requireAuth", "rateLimit", "validateCsrf", "authorizeRole", "handler">>
      [] route = "GET /api/monitoring/"          ->
            <<"requireAuth", "monitoringRateLimit", "handler">>
      [] route = "POST /api/webhooks/supabase/auth" -> <<"rateLimit", "handler">>
      [] route = "OPTIONS /api/users/:id"        -> <<"notFound">>

Routes ==
    {"POST /api/auth/signin", "POST /api/auth/signout", "GET /api/users/:id",
     "PATCH /api/users/:id", "DELETE /api/users/:id", "POST /api/users/:id/unlock",
     "GET /api/monitoring/", "POST /api/webhooks/supabase/auth", "OPTIONS /api/users/:id"}

Stages(route) == GlobalStages \o RouteStages(route)

MethodOf(route) ==
    CASE route \in {"GET /api/users/:id", "GET /api/monitoring/"} -> "GET"
      [] route = "PATCH /api/users/:id"   -> "PATCH"
      [] route = "DELETE /api/users/:id"  -> "DELETE"
      [] route = "OPTIONS /api/users/:id" -> "OPTIONS"
      [] OTHER -> "POST"

UserIds == {"ann-id", "bob-id"}

\* req.user: nobody, a user of the table, or any other authenticated account
GateUsers == {NoUser, "ann-id", "bob-id", "admin-id"}

\* the role handed to the middleware factory; "none" is no argument
Roles == {"admin", "user", "none"}

Go == [next |-> TRUE, status |-> 0, error |-> ""]

Stop(status, error) == [next |-> FALSE, status |-> status, error |-> error]

\* requireAuth: the user behind the token cookie is attached, or 401
RequireAuth(user) == IF user = NoUser THEN Stop(401, "Unauthorized") ELSE Go

\* variant: the commented-out role branch is active for the admin account
AuthorizeSelfOrRole_RoleBranch(user, targetId, allowedRole) ==
    IF user = NoUser THEN Stop(401, "Unauthorized")
    ELSE IF user = targetId THEN Go
    ELSE IF allowedRole = "admin" /\ user = "admin-id" THEN Go
    ELSE Stop(403, "Forbidden: You can only modify your own resources")

\* authorizeSelfOrRole(_allowedRole)
AuthorizeSelfOrRole(user, targetId, allowedRole) ==
    IF user = NoUser THEN Stop(401, "Unauthorized")
    ELSE IF user = targetId THEN Go
    ELSE Stop(403, "Forbidden: You can only modify your own resources")

\* variant: the owner of the target is let through
AuthorizeRoleOf_SelfAllowed(user, targetId, requiredRole) ==
    IF user = NoUser THEN Stop(401, "Unauthorized")
    ELSE IF user = targetId THEN Go
    ELSE Stop(403, "Forbidden: Admin access requires role-based authorization (not yet implemented)")

\* authorizeRole(requiredRole) on a request with req.params.id = targetId
AuthorizeRoleOf(user, targetId, requiredRole) ==
    LET res == AuthorizeRole(user)
    IN  IF res.status = 401
        THEN [next |-> res.next, status |-> 401, error |-> "Unauthorized"]
        ELSE [next |-> res.next, status |-> res.status,
              error |-> "Forbidden: Admin access requires role-based authorization (not yet implemented)"]

\* what one stage does with the request
StageResult(stage, req) ==
    CASE stage = "cors" ->
            IF req.method = "OPTIONS" THEN Stop(204, "") ELSE Go
      [] stage = "express.json" ->
            IF req.big THEN Stop(500, "Something went wrong") ELSE Go
      [] stage \in {"rateLimit", "monitoringRateLimit"} ->
            IF req.rateOk THEN Go ELSE Stop(429, "Too many requests")
      [] stage = "validateCsrf" ->
            IF req.method \in SafeMethods \/ req.csrfOk THEN Go ELSE Stop(403, "CSRF")
      [] stage = "requireAuth" -> RequireAuth(req.user)
      [] stage = "authorizeRole" -> AuthorizeRoleOf(req.user, req.id, req.role)
      [] stage = "authorizeSelfOrRole" -> AuthorizeSelfOrRole(req.user, req.id, req.role)
      [] stage = "notFound" -> Stop(404, "Not found")
      [] stage = "handler" -> Stop(200, "")
      [] OTHER -> Go

NoGate ==
    [route |-> "", method |-> "", user |-> NoUser, id |-> "", role |-> "", big |-> FALSE,
     rateOk |-> FALSE, csrfOk |-> FALSE, ran |-> <<>>, pc |-> "idle", status |-> 0,
     error |-> ""]

NoAuthz ==
    [mw |-> "", user |-> NoUser, id |-> "", role |-> "", next |-> FALSE, status |-> 0,
     error |-> ""]

\* a request arrives at the application
GateReceive(route, user, id, role, big, rateOk, csrfOk) ==
    /\ gate = NoGate
    /\ authzRes = NoAuthz
    /\ gate' = [NoGate EXCEPT !.route = route, !.method = MethodOf(route), !.user = user,
                              !.id = id, !.role = role, !.big = big, !.rateOk = rateOk,
                              !.csrfOk = csrfOk, !.pc = "running"]
    /\ UNCHANGED <<extVars, concVars, now, csrfVars, authVars, redisStore, rateVars, authzRes>>

\* the next middleware of the stack runs: it calls next, or it answers
GateStep ==
    /\ gate.pc = "running"
    /\ LET stage == Stages(gate.route)[Len(gate.ran) + 1]
           res   == StageResult(stage, gate)
       IN  gate' = [gate EXCEPT !.ran = Append(@, stage),
                                !.pc = IF res.next THEN "running" ELSE "done",
                                !.status = res.status, !.error = res.error]
    /\ UNCHANGED <<extVars, concVars, now, csrfVars, authVars, redisStore, rateVars, authzRes>>

\* the response has gone out
GateDone ==
    /\ gate.pc = "done"
    /\ gate' = NoGate
    /\ UNCHANGED <<extVars, concVars, now, csrfVars, authVars, redisStore, rateVars, authzRes>>

\* an authorization middleware is called with a request carrying req.user and
\* req.params.id, built by the factory from the role argument
AuthzCall(mw, user, id, role) ==
    /\ gate = NoGate
    /\ authzRes = NoAuthz
    /\ LET res == IF mw = "authorizeRole" THEN AuthorizeRoleOf(user, id, role)
                  ELSE AuthorizeSelfOrRole(user, id, role)
       IN  authzRes' = [mw |-> mw, user |-> user, id |-> id, role |-> role,
                        next |-> res.next, status |-> res.status, error |-> res.error]
    /\ UNCHANGED <<extVars, concVars, now, csrfVars, authVars, redisStore, rateVars, gate>>

AuthzDone ==
    /\ authzRes # NoAuthz
    /\ authzRes' = NoAuthz
    /\ UNCHANGED <<extVars, concVars, now, csrfVars, authVars, redisStore, rateVars, gate>>

GateInit ==
    /\ gate = NoGate
    /\ authzRes = NoAuthz

NextGate ==
    \/ \E route \in Routes, user \in GateUsers, id \in UserIds, role \in Roles,
          big \in BOOLEAN, rateOk \in BOOLEAN, csrfOk \in BOOLEAN :
           GateReceive(route, user, id, role, big, rateOk, csrfOk)
    \/ GateStep
    \/ GateDone
    \/ \E mw \in {"authorizeRole", "authorizeSelfOrRole"}, user \in GateUsers,
          id \in UserIds, role \in Roles : AuthzCall(mw, user, id, role)
    \/ AuthzDone

-----------------------------------------------------------------------------
(* Concurrent requests to one key: the handlers of one process interleave at
   every await of createRateLimiter and incrementRateLimit *)

\* the requests beyond maxRequests that arrive in the window
ExtraHandlers == 1

MaxConcTick == 1

Handlers == 1 .. (Options("rateLimit").maxRequests + ExtraHandlers)

ConcKey == RlKey(PathOf("rateLimit"), "10.0.0.1")

NoHandler == [pc |-> "idle", count |-> 0, next |-> FALSE, status |-> 0]

\* the handlers whose increment has run
Incremented == {h \in Handlers : handlers[h].pc \in {"incr", "expire", "done"}}

\* The handlers run the same code on the same key, so they are numbered in the
\* order in which their increments run: every interleaving is one of these up
\* to the names of the handlers.
NextToIncrement(h) == \A g \in Handlers : g < h => g \in Incremented

\* the rest of the middleware once the count is known: 429 or the next middleware
ConcDecide(h, count, allowed) ==
    [handlers EXCEPT ![h].pc = "done", ![h].count = count, ![h].next = allowed,
                     ![h].status = IF allowed THEN 0 ELSE 429]

\* no REDIS_URL: the middleware body has no await before inMemoryRateLimit has
\* returned, so it runs to its answer in one turn of the event loop
ConcInProcess(h) ==
    /\ ~redisUrl
    /\ handlers[h].pc = "idle"
    /\ NextToIncrement(h)
    /\ LET o      == Options("rateLimit")
           result == InMemoryRateLimit(inMemoryStore, ConcKey, o.windowMs, o.maxRequests, now)
       IN  /\ inMemoryStore' = result.mem
           /\ handlers' = ConcDecide(h, result.count, result.allowed)
    /\ UNCHANGED <<extVars, gateVars, now, csrfVars, authVars, redisStore, redisUrl, redisInstance,
                   redisUp, rlRes, rlWindow, initializationPromise>>

\* REDIS_URL set: incrementRateLimit calls getRedis() and awaits it; the first
\* caller creates initializationPromise, the others are handed the same promise
ConcStart(h) ==
    /\ redisUrl
    /\ handlers[h].pc = "idle"
    /\ handlers' = [handlers EXCEPT ![h].pc = "getRedis"]
    /\ initializationPromise' = (initializationPromise \/ redisInstance = "none")
    /\ UNCHANGED <<extVars, gateVars, now, csrfVars, authVars, redisStore, rateVars>>

\* the body of initializationPromise settles: wrapper.connect has thrown and
\* the catch block installs an InMemoryRedis
ConcInitialized ==
    /\ initializationPromise
    /\ redisInstance = "none"
    /\ ~redisUp
    /\ redisInstance' = GetRedis(redisInstance, redisUrl, redisUp)
    /\ UNCHANGED <<extVars, concVars, gateVars, now, csrfVars, authVars, redisStore, redisUrl,
                   redisUp, inMemoryStore, rlRes, rlWindow>>

\* getRedis() has resolved: redis.incr(key) runs to its return, then the
\* handler awaits the promise it returned
ConcIncr(h) ==
    /\ handlers[h].pc = "getRedis"
    /\ redisInstance # "none"
    /\ NextToIncrement(h)
    /\ LET r == RedisIncr(redisInstance, redisStore, ConcKey, now)
       IN  /\ redisStore' = r.store
           /\ handlers' = [handlers EXCEPT ![h].pc = "incr", ![h].count = r.count]
    /\ UNCHANGED <<extVars, gateVars, now, csrfVars, authVars, rateVars, initializationPromise>>

\* the count has arrived: on count 1 redis.expire(key, windowSeconds) runs and
\* is awaited, otherwise incrementRateLimit returns and the middleware decides
ConcAfterIncr(h) ==
    /\ handlers[h].pc = "incr"
    /\ LET o             == Options("rateLimit")
           windowSeconds == Ceil(o.windowMs, 1000)
           count         == handlers[h].count
       IN  IF count = 1
           THEN /\ redisStore' = RedisExpire(redisInstance, redisStore, ConcKey, windowSeconds, now)
                /\ handlers' = [handlers EXCEPT ![h].pc = "expire"]
           ELSE /\ handlers' = ConcDecide(h, count, ~(count > o.maxRequests))
                /\ UNCHANGED redisStore
    /\ UNCHANGED <<extVars, gateVars, now, csrfVars, authVars, rateVars, initializationPromise>>

\* expire has settled: incrementRateLimit returns the count
ConcAfterExpire(h) ==
    /\ handlers[h].pc = "expire"
    /\ LET count == handlers[h].count
       IN  handlers' = ConcDecide(h, count, ~(count > Options("rateLimit").maxRequests))
    /\ UNCHANGED <<extVars, gateVars, now, csrfVars, authVars, redisStore, rateVars,
                   initializationPromise>>

\* time passes while handlers wait; all of it inside the first window
ConcTick ==
    /\ now < MaxConcTick
    /\ now' = now + 1
    /\ UNCHANGED <<extVars, concVars, gateVars, csrfVars, authVars, redisStore, rateVars>>

ConcInit ==
    /\ handlers = [h \in Handlers |-> NoHandler]
    /\ initializationPromise = FALSE

NextConc ==
    \/ \E h \in Handlers : ConcInProcess(h)
    \/ \E h \in Handlers : ConcStart(h)
    \/ ConcInitialized
    \/ \E h \in Handlers : ConcIncr(h)
    \/ \E h \in Handlers : ConcAfterIncr(h)
    \/ \E h \in Handlers : ConcAfterExpire(h)
    \/ ConcTick

-----------------------------------------------------------------------------
(* The in-process stores called directly: class InMemoryRedis of lib/redis.ts
   and the Map of middleware/rateLimit.ts *)

MaxStoreCount == 2

StoreKey == RlKey(PathOf("rateLimit"), "10.0.0.1")

\* the values of the option ex of set(): 0 stands for an absent option
SetEx == {0, 60}

InMemoryRedisSetDefaultTtlMs == 3600000

\* InMemoryRedis.get: the Map after the call and the value returned
InMemoryRedisGet(store, key, t) ==
    LET existing == store[key]
    IN  IF existing # NoEntry /\ existing.expiresAt > t
        THEN [store |-> store, null |-> FALSE, value |-> existing.value]
        ELSE [store |-> RedisDel(store, key), null |-> TRUE, value |-> EmptyPart]

\* InMemoryRedis.set
InMemoryRedisSet(store, key, value, ex, t) ==
    LET expiresAt == IF ex # 0 THEN t + ex * 1000 ELSE t + InMemoryRedisSetDefaultTtlMs
    IN  [store EXCEPT ![key] = [value |-> value, expiresAt |-> expiresAt]]

NoStoreRes ==
    [op |-> "", at |-> 0, wasExpired |-> FALSE, null |-> FALSE, count |-> 0]

\* whether the Map of InMemoryRedis holds an entry for the key whose expiresAt
\* lies before t
RedisEntryExpired(store, key, t) == store[key] # NoEntry /\ store[key].expiresAt < t

\* the same for the Map of the rate limiter
MemEntryExpired(mem, key, t) == mem[key] # NoMemEntry /\ mem[key].reset < t

\* one call on the InMemoryRedis that getRedis() returns without REDIS_URL
StoreCall(op, ex) ==
    /\ GetRedis(redisInstance, redisUrl, FALSE) = "memory"
    /\ redisInstance' = "memory"
    /\ LET was == RedisEntryExpired(redisStore, StoreKey, now)
           res == [NoStoreRes EXCEPT !.op = op, !.at = now, !.wasExpired = was]
       IN  CASE op = "incr" ->
                  LET r == InMemoryRedisIncr(redisStore, StoreKey, now)
                  IN  /\ r.count <= MaxStoreCount
                      /\ redisStore' = r.store
                      /\ storeRes' = [res EXCEPT !.count = r.count]
             [] op = "expire" ->
                  /\ ex # 0
                  /\ redisStore' = InMemoryRedisExpire(redisStore, StoreKey, ex, now)
                  /\ storeRes' = res
             [] op = "get" ->
                  LET r == InMemoryRedisGet(redisStore, StoreKey, now)
                  IN  /\ redisStore' = r.store
                      /\ storeRes' = [res EXCEPT !.null = r.null,
                                         !.count = IF r.null THEN 0 ELSE ParseInt(r.value)]
             [] op = "set" ->
                  /\ redisStore' = InMemoryRedisSet(redisStore, StoreKey, NumToString(1), ex, now)
                  /\ storeRes' = res
             [] op = "del" ->
                  /\ ex = 0
                  /\ redisStore' = RedisDel(redisStore, StoreKey)
                  /\ storeRes' = res
    /\ UNCHANGED <<concVars, gateVars, now, csrfVars, authVars, redisUrl, redisUp,
                   inMemoryStore, rlRes, rlWindow, timeoutReq, clientIp, incrCall,
                   lockReqs, redisCallers, fetchCall, csrfLog>>

\* one call of inMemoryRateLimit with the options of the strict limiter
MemCall ==
    /\ LET o == Options("rateLimit")
           r == InMemoryRateLimit(inMemoryStore, StoreKey, o.windowMs, o.maxRequests, now)
       IN  /\ r.count <= MaxStoreCount
           /\ inMemoryStore' = r.mem
           /\ storeRes' = [NoStoreRes EXCEPT !.op = "inMemoryRateLimit", !.at = now,
                              !.wasExpired = MemEntryExpired(inMemoryStore, StoreKey, now),
                              !.count = r.count]
    /\ UNCHANGED <<concVars, gateVars, now, csrfVars, authVars, redisStore, redisUrl,
                   redisInstance, redisUp, rlRes, rlWindow, timeoutReq, clientIp,
                   incrCall, lockReqs, redisCallers, fetchCall, csrfLog>>

StoreOps == {"incr", "expire", "get", "set", "del"}

NextStore ==
    \/ \E op \in StoreOps, ex \in SetEx : StoreCall(op, ex)
    \/ MemCall
    \/ Sweep
    \/ RateTick

-----------------------------------------------------------------------------
(* Request timeout: middleware/timeout.ts, registered in index.ts *)

DEFAULT_TIMEOUT_MS == 30000

MaxTimeoutTick == 2

\* the stages a request can hang in: the stage is entered and does not return
StallStages ==
    {"express.json", "rateLimit", "validateCsrf", "requireAuth", "authorizeSelfOrRole",
     "handler"}

TimeoutRoutes == {"POST /api/auth/signin", "PATCH /api/users/:id"}

NoTimeoutReq ==
    [NoGate EXCEPT !.pc = "idle"] @@
    [stallAt |-> "", arrived |-> 0, armed |-> FALSE, armedAt |-> 0, timedOut |-> FALSE,
     headersSent |-> FALSE, destroyed |-> FALSE]

\* the stage the request enters next
NextStage(req) == Stages(req.route)[Len(req.ran) + 1]

Stalled(req) == req.pc = "running" /\ NextStage(req) = req.stallAt

\* a well-formed request of a signed-in user on their own record arrives; one
\* stage of its route, or none, will hang
TimeoutReceive(route, stallAt) ==
    /\ timeoutReq = NoTimeoutReq
    /\ stallAt # "" => \E i \in 1..Len(Stages(route)) : Stages(route)[i] = stallAt
    /\ timeoutReq' = [NoTimeoutReq EXCEPT !.route = route, !.method = MethodOf(route),
                         !.user = "ann-id", !.id = "ann-id", !.role = "admin",
                         !.rateOk = TRUE, !.csrfOk = TRUE, !.pc = "running",
                         !.stallAt = stallAt, !.arrived = now]
    /\ UNCHANGED <<concVars, gateVars, now, csrfVars, authVars, redisStore, rateVars,
                   storeRes, clientIp, incrCall, lockReqs, redisCallers, fetchCall, csrfLog>>

\* the next middleware runs and returns. requestTimeout arms the socket timer
\* with handleTimeout (req.setTimeout and res.setTimeout) and calls next
TimeoutStep ==
    /\ timeoutReq.pc = "running"
    /\ ~timeoutReq.timedOut
    /\ ~Stalled(timeoutReq)
    /\ LET stage == NextStage(timeoutReq)
           res   == StageResult(stage, timeoutReq)
           arms  == stage = "requestTimeout"
       IN  timeoutReq' = [timeoutReq EXCEPT
                             !.ran = Append(@, stage),
                             !.pc = IF res.next THEN "running" ELSE "done",
                             !.status = res.status, !.error = res.error,
                             !.headersSent = ~res.next,
                             !.armed = @ \/ arms,
                             !.armedAt = IF arms THEN now ELSE @]
    /\ UNCHANGED <<concVars, gateVars, now, csrfVars, authVars, redisStore, rateVars,
                   storeRes, clientIp, incrCall, lockReqs, redisCallers, fetchCall, csrfLog>>

TimerDue(req) ==
    /\ req.armed
    /\ ~req.timedOut
    /\ req.pc = "running"
    /\ now >= req.armedAt + DEFAULT_TIMEOUT_MS

\* handleTimeout, called when the socket has been silent for timeoutMs
HandleTimeout(req) ==
    IF req.timedOut THEN req
    ELSE [req EXCEPT !.timedOut = TRUE,
                     !.status = IF ~req.headersSent THEN 503 ELSE @,
                     !.error = IF ~req.headersSent THEN "Request timeout" ELSE @,
                     !.headersSent = TRUE,
                     !.destroyed = TRUE,
                     !.pc = "done"]

TimeoutFires ==
    /\ TimerDue(timeoutReq)
    /\ timeoutReq' = HandleTimeout(timeoutReq)
    /\ UNCHANGED <<concVars, gateVars, now, csrfVars, authVars, redisStore, rateVars,
                   storeRes, clientIp, incrCall, lockReqs, redisCallers, fetchCall, csrfLog>>

\* time passes while the request hangs, never past the moment the timer is due
TimeoutTick ==
    /\ Stalled(timeoutReq)
    /\ ~TimerDue(timeoutReq)
    /\ \E k \in 1..MaxTimeoutTick, j \in {0, 1} :
           /\ now' = timeoutReq.arrived + k * DEFAULT_TIMEOUT_MS + j
           /\ now' > now
           /\ timeoutReq.armed => now' <= timeoutReq.armedAt + DEFAULT_TIMEOUT_MS
    /\ UNCHANGED <<extVars, concVars, gateVars, csrfVars, authVars, redisStore, rateVars>>

\* the connection of an answered request has closed
TimeoutDone ==
    /\ timeoutReq.pc = "done"
    /\ now < MaxTimeoutTick * DEFAULT_TIMEOUT_MS
    /\ timeoutReq' = NoTimeoutReq
    /\ UNCHANGED <<concVars, gateVars, now, csrfVars, authVars, redisStore, rateVars,
                   storeRes, clientIp, incrCall, lockReqs, redisCallers, fetchCall, csrfLog>>

NextTimeout ==
    \/ \E route \in TimeoutRoutes, stallAt \in StallStages \cup {""} :
           TimeoutReceive(route, stallAt)
    \/ TimeoutStep
    \/ TimeoutFires
    \/ TimeoutTick
    \/ TimeoutDone

-----------------------------------------------------------------------------
(* A client that keeps using the CSRF tokens it was issued, across sign-in,
   sign-out and the issue of newer tokens: middleware/csrf.ts, routes/auth.ts *)

MaxUses == 3

CsrfRoutes == {"POST /api/auth/signin", "POST /api/auth/signout", "PATCH /api/users/:id"}

NoCsrfLog ==
    [issued |-> {}, uses |-> [g \in CsrfTimes |-> 0], route |-> "", signedIn |-> FALSE,
     signedOut |-> FALSE]

\* GET /api/auth/csrf: setCsrfToken
IssueToken ==
    /\ csrfReq = NoReq
    /\ clientToken' = GenerateCsrfToken(now)
    /\ csrfLog' = [csrfLog EXCEPT !.issued = @ \cup {now}]
    /\ UNCHANGED <<concVars, gateVars, now, csrfReq, csrfRes, authVars, redisStore, rateVars,
                   storeRes, timeoutReq, clientIp, incrCall, lockReqs, redisCallers,
                   fetchCall>>

\* the cookies a client can send along: none, the one its cookie jar holds, or
\* the token it sends in the header
ReplayCookies(token) ==
    {Undefined} \cup {[form |-> "str", val |-> s] : s \in {token, clientToken} \ {NoStr}}

\* a state-changing request carrying in its header the token issued at g goes
\* through validateCsrf and, when let through, reaches the route's handler:
\* sign-in sets the session cookies when the credentials are good, sign-out
\* clears them (clearCookies)
ReplayRequest(route, g, ok) ==
    /\ csrfReq = NoReq
    /\ g \in csrfLog.issued
    /\ \E c \in ReplayCookies(GenerateCsrfToken(g)) :
         LET req == [method |-> MethodOf(route), cookie |-> c,
                     header |-> [form |-> "str", val |-> GenerateCsrfToken(g)], at |-> now]
             res == ValidateCsrf(req, now)
         IN  /\ csrfReq' = req
             /\ csrfRes' = res
             /\ csrfLog' = [csrfLog EXCEPT
                   !.route = route,
                   !.uses[g] = IF res.next /\ @ < MaxUses THEN @ + 1 ELSE @,
                   !.signedIn = IF ~res.next THEN @
                                ELSE IF route = "POST /api/auth/signin" THEN @ \/ ok
                                ELSE IF route = "POST /api/auth/signout" THEN FALSE
                                ELSE @,
                   !.signedOut = @ \/ (res.next /\ route = "POST /api/auth/signout")]
    /\ UNCHANGED <<concVars, gateVars, now, clientToken, authVars, redisStore, rateVars,
                   storeRes, timeoutReq, clientIp, incrCall, lockReqs, redisCallers,
                   fetchCall>>

NextReplay ==
    \/ IssueToken
    \/ \E route \in CsrfRoutes, g \in CsrfTimes, ok \in BOOLEAN : ReplayRequest(route, g, ok)
    \/ CsrfDone
    \/ CsrfTick

-----------------------------------------------------------------------------
(* Client IP extraction: getClientIp of middleware/rateLimit.ts *)

\* app.set('trust proxy', 1)
TrustProxy == 1

MaxFwdLen == 2

\* a piece of text: its characters without the white space around them, and
\* whether white space surrounds them
Text(s, pad) == [text |-> s, pad |-> pad]

\* String.prototype.trim
Trim(x) == Text(x.text, FALSE)

FwdItems == {Text(s, pad) : s \in {"", "203.0.113.7"}, pad \in BOOLEAN}

SeqsUpTo(S, n) == UNION {[1..k -> S] : k \in 0..n}

\* req.headers['x-forwarded-for']: undefined, a string (given by the pieces
\* between its commas, at least one) or an array of strings
FwdHeaders ==
    {[form |-> "undef", items |-> <<>>]}
    \cup {[form |-> "str", items |-> q] : q \in SeqsUpTo(FwdItems, MaxFwdLen) \ {<<>>}}
    \cup {[form |-> "arr", items |-> q] : q \in SeqsUpTo(FwdItems, MaxFwdLen)}

NoAddress == Text("undefined", FALSE)

\* req.socket.remoteAddress
RemoteAddresses == {NoAddress, Text("198.51.100.9", FALSE), Text("::1", FALSE)}

Unknown == Text("unknown", FALSE)

\* getClientIp(req)
GetClientIp(fwd, remoteAddress) ==
    IF fwd.form = "str" THEN Trim(fwd.items[1])
    ELSE IF fwd.form = "arr"
         THEN IF Len(fwd.items) > 0 THEN fwd.items[1] ELSE Unknown
    ELSE IF remoteAddress # NoAddress THEN remoteAddress ELSE Unknown

NoClientIp == [fwd |-> [form |-> "undef", items |-> <<>>], remoteAddress |-> NoAddress,
               called |-> FALSE, ip |-> Unknown, key |-> <<>>]

\* the limiter builds its key for a request to /signin
ClientIpCall(fwd, remoteAddress) ==
    /\ LET ip == GetClientIp(fwd, remoteAddress)
       IN  clientIp' = [fwd |-> fwd, remoteAddress |-> remoteAddress, called |-> TRUE,
                        ip |-> ip, key |-> RlKey(PathOf("rateLimit"), ip)]
    /\ UNCHANGED <<concVars, gateVars, now, csrfVars, authVars, redisStore, rateVars,
                   storeRes, timeoutReq, incrCall, lockReqs, redisCallers, fetchCall,
                   csrfLog>>

NextClientIp == \E fwd \in FwdHeaders, a \in RemoteAddresses : ClientIpCall(fwd, a)

-----------------------------------------------------------------------------
(* incrementRateLimit and incrementLockoutCounter on the shared store, step
   by step: lib/redis.ts *)

MaxCrashCount == 3

\* the two helpers, each with the key and the window (seconds) it is called with
IncrFns == {"incrementRateLimit", "incrementLockoutCounter"}

IncrKey(fn) ==
    IF fn = "incrementRateLimit" THEN RlKey(PathOf("rateLimit"), "10.0.0.1")
    ELSE LockoutKey("ann@example.com")

IncrSeconds(fn) ==
    IF fn = "incrementRateLimit" THEN Ceil(Options("rateLimit").windowMs, 1000)
    ELSE LOCKOUT_WINDOW_MINUTES * 60

NoIncrCall ==
    [fn |-> "", pc |-> "idle", count |-> 0, expireCalled |-> FALSE, orphans |-> {}]

\* variant: expire is called after every increment
ExpireOnFirst_Always(instance, store, key, seconds, count, t) ==
    [called |-> TRUE, store |-> RedisExpire(instance, store, key, seconds, t)]

\* if (count === 1) await redis.expire(key, seconds)
ExpireOnFirst(instance, store, key, seconds, count, t) ==
    IF count = 1
    THEN [called |-> TRUE, store |-> RedisExpire(instance, store, key, seconds, t)]
    ELSE [called |-> FALSE, store |-> store]

\* a helper is called: getRedis() returns the connected client and
\* redis.incr(key) is answered by the server
IncrBegin(fn) ==
    /\ incrCall.pc = "idle"
    /\ redisUrl /\ redisUp
    /\ LET instance == GetRedis(redisInstance, redisUrl, redisUp)
           r        == RedisIncr(instance, redisStore, IncrKey(fn), now)
       IN  /\ r.count <= MaxCrashCount
           /\ redisInstance' = instance
           /\ redisStore' = r.store
           /\ incrCall' = [incrCall EXCEPT !.fn = fn, !.pc = "incremented",
                                           !.count = r.count, !.expireCalled = FALSE]
    /\ UNCHANGED <<concVars, gateVars, now, csrfVars, authVars, redisUrl, redisUp,
                   inMemoryStore, rlRes, rlWindow, storeRes, timeoutReq, clientIp,
                   lockReqs, redisCallers, fetchCall, csrfLog>>

\* the helper goes on after incr: expire on count 1, then it returns the count
IncrFinish ==
    /\ incrCall.pc = "incremented"
    /\ LET x == ExpireOnFirst(redisInstance, redisStore, IncrKey(incrCall.fn),
                              IncrSeconds(incrCall.fn), incrCall.count, now)
       IN  /\ redisStore' = x.store
           /\ incrCall' = [incrCall EXCEPT !.pc = "idle", !.expireCalled = x.called]
    /\ UNCHANGED <<concVars, gateVars, now, csrfVars, authVars, rateVars, storeRes,
                   timeoutReq, clientIp, lockReqs, redisCallers, fetchCall, csrfLog>>

\* the process stops, or the expire call fails, after incr was answered: the
\* helper never completes expire, the server keeps what incr wrote
IncrCrash ==
    /\ incrCall.pc = "incremented"
    /\ incrCall' = [incrCall EXCEPT
                       !.pc = "idle",
                       !.orphans = IF incrCall.count = 1 THEN @ \cup {incrCall.fn} ELSE @]
    /\ UNCHANGED <<concVars, gateVars, now, csrfVars, authVars, redisStore, rateVars,
                   storeRes, timeoutReq, clientIp, lockReqs, redisCallers, fetchCall,
                   csrfLog>>

\* resetRateLimit(key) / resetLockoutCounter(email)
IncrReset(fn) ==
    /\ incrCall.pc = "idle"
    /\ RedisHolds(redisStore, IncrKey(fn), now)
    /\ redisStore' = ResetRateLimit(redisStore, IncrKey(fn))
    /\ incrCall' = [incrCall EXCEPT !.orphans = @ \ {fn}]
    /\ UNCHANGED <<concVars, gateVars, now, csrfVars, authVars, rateVars, storeRes,
                   timeoutReq, clientIp, lockReqs, redisCallers, fetchCall, csrfLog>>

NextCrash ==
    \/ \E fn \in IncrFns : IncrBegin(fn)
    \/ IncrFinish
    \/ IncrCrash
    \/ \E fn \in IncrFns : IncrReset(fn)
    \/ RateTick

-----------------------------------------------------------------------------
(* Concurrent sign-in requests for one email, all with a wrong password:
   routes/auth.ts, services/authEvent.service.ts *)

LockHandlers == 1 .. (LOCKOUT_MAX_ATTEMPTS + ExtraHandlers)

RaceEmail == "ann@example.com"

NoLockReq == [pc |-> "idle", failedAttempts |-> 0, verified |-> FALSE, status |-> 0]

\* the handler up to its first await and on to the lockout decision:
\* getFailedAttempts counts the failure rows written so far. The requests are
\* alike, so they are numbered in the order of their checks.
RaceCheck(h) ==
    /\ lockReqs[h].pc = "idle"
    /\ \A g \in LockHandlers : g < h => lockReqs[g].pc # "idle"
    /\ LET failed == GetFailedAttempts(authEvents, dbUp, RaceEmail, now - LockoutWindowMs)
       IN  lockReqs' = [lockReqs EXCEPT ![h] =
              IF IsLocked(failed.count)
              THEN [@ EXCEPT !.pc = "done", !.failedAttempts = failed.count, !.status = 429]
              ELSE [@ EXCEPT !.pc = "verify", !.failedAttempts = failed.count]]
    /\ UNCHANGED <<concVars, gateVars, now, csrfVars, authVars, redisStore, rateVars,
                   storeRes, timeoutReq, clientIp, incrCall, redisCallers, fetchCall,
                   csrfLog>>

\* authService.signIn checks the credentials and throws; the catch block
\* starts authEventService.log without awaiting it and rethrows: 401
RaceVerify(h) ==
    /\ lockReqs[h].pc = "verify"
    /\ LET answer == SignInResponse(AuthServiceSignIn(FALSE), dbUp)
       IN  lockReqs' = [lockReqs EXCEPT ![h] =
              [@ EXCEPT !.pc = "logging", !.verified = TRUE, !.status = answer.status]]
    /\ UNCHANGED <<concVars, gateVars, now, csrfVars, authVars, redisStore, rateVars,
                   storeRes, timeoutReq, clientIp, incrCall, redisCallers, fetchCall,
                   csrfLog>>

\* authEventService.log: prisma.authEvent.create writes the failure row
RaceLog(h) ==
    /\ lockReqs[h].pc = "logging"
    /\ dbUp
    /\ authEvents' = InsertRow(authEvents, Row(RaceEmail, "SIGN_IN_FAILED", now))
    /\ lockReqs' = [lockReqs EXCEPT ![h].pc = "done"]
    /\ UNCHANGED <<concVars, gateVars, now, csrfVars, dbUp, pendingLogs, signIn, started,
                   unlockRes, redisStore, rateVars, storeRes, timeoutReq, clientIp,
                   incrCall, redisCallers, fetchCall, csrfLog>>

NextRace ==
    \/ \E h \in LockHandlers : RaceCheck(h)
    \/ \E h \in LockHandlers : RaceVerify(h)
    \/ \E h \in LockHandlers : RaceLog(h)
    \/ ConcTick

-----------------------------------------------------------------------------
(* getRedis and disconnectRedis, one event-loop turn at a time: lib/redis.ts *)

MaxCallers == 3

MaxDisconnects == 1

GetCallers == 1..MaxCallers

\* a caller of getRedis: the epoch (number of completed disconnects) it called
\* in, whose initializationPromise it awaits, what it was handed; and, when
\* its call started the initialization, how far that has come and the
\* instance it constructed
NoCaller ==
    [pc |-> "idle", epoch |-> 0, awaits |-> 0, got |-> 0, init |-> "", made |-> 0]

NoRedisCallers ==
    [callers |-> [c \in GetCallers |-> NoCaller],
     instanceId |-> 0,    \* which object redisInstance refers to, 0 for null
     owner |-> 0,         \* whose call created initializationPromise
     nextId |-> 1, epoch |-> 0, built |-> 0, disc |-> "idle", disconnects |-> 0]

\* variant: a pending initialization is not looked at
GetRedisPath_NoPromiseGuard(hasInstance, promise) ==
    IF hasInstance THEN "instance" ELSE "initialize"

\* the first lines of getRedis: which way a call goes
GetRedisPath(hasInstance, promise) ==
    IF hasInstance THEN "instance"
    ELSE IF promise THEN "promise"
    ELSE "initialize"

\* redisInstance = new ...: the object constructed gets the next identity
Construct(rc, c) ==
    [rc EXCEPT !.instanceId = rc.nextId, !.nextId = @ + 1, !.built = @ + 1,
               !.callers[c].init = "settled", !.callers[c].made = rc.nextId]

\* getRedis() up to its first await
GetRedisCall(c) ==
    /\ redisCallers.callers[c].pc = "idle"
    /\ LET path == GetRedisPath(redisCallers.instanceId # 0, initializationPromise)
           rc   == [redisCallers EXCEPT !.callers[c].epoch = redisCallers.epoch]
       IN  CASE path = "instance" ->
                  /\ redisCallers' = [rc EXCEPT !.callers[c].pc = "done",
                                                !.callers[c].got = rc.instanceId]
                  /\ UNCHANGED <<initializationPromise, redisInstance>>
             [] path = "promise" ->
                  /\ redisCallers' = [rc EXCEPT !.callers[c].pc = "waiting",
                                                !.callers[c].awaits = rc.owner]
                  /\ UNCHANGED <<initializationPromise, redisInstance>>
             [] path = "initialize" ->
                  LET begun == [rc EXCEPT !.callers[c].pc = "waiting",
                                          !.callers[c].awaits = c, !.owner = c,
                                          !.callers[c].init = "connecting"]
                  IN  /\ initializationPromise' = TRUE
                      /\ IF redisUrl
                         THEN /\ redisCallers' = begun
                              /\ UNCHANGED redisInstance
                         ELSE /\ redisCallers' = Construct(begun, c)
                              /\ redisInstance' = GetRedis("none", redisUrl, FALSE)
    /\ UNCHANGED <<handlers, gateVars, now, csrfVars, authVars,
                   redisStore, redisUrl, redisUp, inMemoryStore, rlRes, rlWindow, storeRes,
                   timeoutReq, clientIp, incrCall, lockReqs, fetchCall, csrfLog>>

\* wrapper.connect(url) settles: the wrapper becomes redisInstance, or the
\* catch block constructs an InMemoryRedis
InitSettle(c) ==
    /\ redisCallers.callers[c].init = "connecting"
    /\ redisCallers' = Construct(redisCallers, c)
    /\ redisInstance' = GetRedis("none", redisUrl, redisUp)
    /\ UNCHANGED <<concVars, gateVars, now, csrfVars, authVars, redisStore, redisUrl,
                   redisUp, inMemoryStore, rlRes, rlWindow, storeRes, timeoutReq, clientIp,
                   incrCall, lockReqs, fetchCall, csrfLog>>

\* a caller awaiting initializationPromise resumes with the promise's value
CallerResume(c) ==
    /\ redisCallers.callers[c].pc = "waiting"
    /\ LET o == redisCallers.callers[c].awaits
       IN  /\ redisCallers.callers[o].init = "settled"
           /\ redisCallers' = [redisCallers EXCEPT
                                  !.callers[c].pc = "done",
                                  !.callers[c].got = redisCallers.callers[o].made]
    /\ UNCHANGED <<concVars, gateVars, now, csrfVars, authVars, redisStore, rateVars,
                   storeRes, timeoutReq, clientIp, incrCall, lockReqs, fetchCall, csrfLog>>

\* disconnectRedis() finds an instance and awaits its quit()
DisconnectBegin ==
    /\ redisCallers.disc = "idle"
    /\ redisCallers.disconnects < MaxDisconnects
    /\ redisCallers.instanceId # 0
    /\ redisCallers' = [redisCallers EXCEPT !.disc = "quitting"]
    /\ UNCHANGED <<concVars, gateVars, now, csrfVars, authVars, redisStore, rateVars,
                   storeRes, timeoutReq, clientIp, incrCall, lockReqs, fetchCall, csrfLog>>

\* quit() has settled: redisInstance = null; initializationPromise = null
DisconnectEnd ==
    /\ redisCallers.disc = "quitting"
    /\ redisCallers' = [redisCallers EXCEPT !.disc = "idle", !.disconnects = @ + 1,
                                            !.instanceId = 0, !.owner = 0,
                                            !.epoch = @ + 1, !.built = 0]
    /\ redisInstance' = "none"
    /\ initializationPromise' = FALSE
    /\ UNCHANGED <<handlers, gateVars, now, csrfVars, authVars, redisStore, redisUrl,
                   redisUp, inMemoryStore, rlRes, rlWindow, storeRes, timeoutReq, clientIp,
                   incrCall, lockReqs, fetchCall, csrfLog>>

NextGetRedis ==
    \/ \E c \in GetCallers : GetRedisCall(c)
    \/ \E c \in GetCallers : InitSettle(c)
    \/ \E c \in GetCallers : CallerResume(c)
    \/ DisconnectBegin
    \/ DisconnectEnd
    \/ RedisToggle

-----------------------------------------------------------------------------
(* Client fetcher: fetcher of client/src/lib/api.ts *)

DEFAULT_RETRIES == 3

MaxRetries == 2

\* the retries option: absent (the default) or a small number
RetryOptions == (0 .. MaxRetries) \cup {DEFAULT_RETRIES}

\* a text as the sequence of its characters
HttpPrefix == <<"H", "T", "T", "P", " ">>

Digit(n) == <<"0", "1", "2", "3", "4", "5", "6", "7", "8", "9">>[n + 1]

\* `${response.status}`
StatusText(status) ==
    <<Digit(status \div 100), Digit((status \div 10) % 10), Digit(status % 10)>>

\* `HTTP ${response.status}`
HttpStatusMessage(status) == HttpPrefix \o StatusText(status)

\* String.prototype.includes
Includes(text, part) ==
    \E i \in 0 .. (Len(text) - Len(part)) : SubSeq(text, i + 1, i + Len(part)) = part

\* 'HTTP 4'
Http4 == HttpPrefix \o <<"4">>

FetchStatuses == {200, 400, 401, 429, 503}

\* the error field of a JSON body: absent or empty (<<>>), a plain message, or
\* a message that quotes a status line
ErrorTexts == {<<>>, <<"N", "o">>, HttpStatusMessage(409)}

\* a response body: JSON or not, and the error field of the JSON
FetchBodies ==
    {[json |-> FALSE, error |-> <<>>]} \cup {[json |-> TRUE, error |-> t] : t \in ErrorTexts}

\* what one call of fetch settles with: a response, a rejection for a network
\* failure, or the abort made by the timeout
FetchOutcomes ==
    {[kind |-> "response", status |-> s, body |-> b] : s \in FetchStatuses, b \in FetchBodies}
    \cup {[kind |-> k, status |-> 0, body |-> [json |-> FALSE, error |-> <<>>]] :
            k \in {"network", "abort"}}

\* isRetryableStatus(status)
IsRetryableStatus(status) == status >= 500 \/ status = 429

\* response.ok
ResponseOk(status) == status >= 200 /\ status <= 299

NoError == [name |-> "none", message |-> <<>>]

\* the error thrown inside the try block of one attempt, NoError when the
\* attempt returns: the rejection of fetch, the Error built from a response
\* that is not ok, or the SyntaxError of response.json() on a body that is not JSON
Thrown(o) ==
    IF o.kind = "network" THEN [name |-> "TypeError", message |-> <<"F", "a", "i", "l">>]
    ELSE IF o.kind = "abort" THEN [name |-> "AbortError", message |-> <<"A", "b", "o", "r", "t">>]
    ELSE IF ~ResponseOk(o.status)
         THEN LET err == IF o.body.json THEN o.body.error ELSE HttpStatusMessage(o.status)
              IN  [name |-> "Error",
                   message |-> IF err # <<>> THEN err ELSE HttpStatusMessage(o.status)]
    ELSE IF ~o.body.json THEN [name |-> "SyntaxError", message |-> <<"J", "S", "O", "N">>]
    ELSE NoError

\* one pass through the body of the for loop, for the outcome o of its fetch:
\* "sleep" when the pass ends in sleep(delay) and the loop goes on, "return"
\* and "throw" when the call ends
FetcherStep(attempt, retries, o) ==
    IF o.kind = "response" /\ ~ResponseOk(o.status)
       /\ attempt < retries /\ IsRetryableStatus(o.status)
    THEN "sleep"
    ELSE IF Thrown(o) = NoError THEN "return"
    ELSE IF Thrown(o).name = "AbortError" \/ Includes(Thrown(o).message, Http4) THEN "throw"
    ELSE IF attempt < retries THEN "sleep"
    ELSE "throw"

\* the kind of outcome an attempt ended with
OutcomeClass(o) ==
    IF o.kind = "network" THEN "network"
    ELSE IF o.kind = "abort" THEN "timeout"
    ELSE IF o.status = 429 THEN "429"
    ELSE IF o.status >= 500 THEN "5xx"
    ELSE IF o.status >= 400 THEN "4xx"
    ELSE "2xx"

\* one call of fetcher: pc is where it stands, attempt the loop variable,
\* fetches the number of calls of fetch it made, last the outcome of the latest
\* one, repeatedAfter the kinds of outcome after which it called fetch again
NoFetchCall ==
    [pc |-> "idle", retries |-> 0, attempt |-> 0, fetches |-> 0,
     last |-> [kind |-> "none", status |-> 0, body |-> [json |-> FALSE, error |-> <<>>]],
     repeatedAfter |-> {}]

\* fetcher(endpoint, options): runs up to the first await fetch(...)
FetcherCall(retries) ==
    /\ fetchCall.pc \in {"idle", "return", "throw"}
    /\ fetchCall' = [NoFetchCall EXCEPT !.pc = "fetch", !.retries = retries, !.fetches = 1]
    /\ UNCHANGED <<storeRes, timeoutReq, clientIp, incrCall, lockReqs, redisCallers, csrfLog>>
    /\ UNCHANGED <<concVars, gateVars, now, csrfVars, authVars, redisStore, rateVars>>

\* the awaited fetch settles and the pass through the loop body runs to its
\* sleep, its return or its throw
FetchSettles(o) ==
    /\ fetchCall.pc = "fetch"
    /\ fetchCall' = [fetchCall EXCEPT
                        !.pc = FetcherStep(fetchCall.attempt, fetchCall.retries, o),
                        !.last = o]
    /\ UNCHANGED <<storeRes, timeoutReq, clientIp, incrCall, lockReqs, redisCallers, csrfLog>>
    /\ UNCHANGED <<concVars, gateVars, now, csrfVars, authVars, redisStore, rateVars>>

\* sleep(delay) is over: attempt++ and the next fetch
SleepDone ==
    /\ fetchCall.pc = "sleep"
    /\ fetchCall' = [fetchCall EXCEPT
                        !.pc = "fetch",
                        !.attempt = @ + 1,
                        !.fetches = @ + 1,
                        !.repeatedAfter = @ \cup {OutcomeClass(fetchCall.last)}]
    /\ UNCHANGED <<storeRes, timeoutReq, clientIp, incrCall, lockReqs, redisCallers, csrfLog>>
    /\ UNCHANGED <<concVars, gateVars, now, csrfVars, authVars, redisStore, rateVars>>

NextFetcher ==
    \/ \E retries \in RetryOptions : FetcherCall(retries)
    \/ \E o \in FetchOutcomes : FetchSettles(o)
    \/ SleepDone

-----------------------------------------------------------------------------

ExtInit ==
    /\ storeRes = NoStoreRes
    /\ timeoutReq = NoTimeoutReq
    /\ clientIp = NoClientIp
    /\ incrCall = NoIncrCall
    /\ lockReqs = [h \in LockHandlers |-> NoLockReq]
    /\ redisCallers = NoRedisCallers
    /\ fetchCall = NoFetchCall
    /\ csrfLog = NoCsrfLog

-----------------------------------------------------------------------------

RedisKeys == UNION {UnlockKeys(e) : e \in Emails} \cup RateKeys

RedisInit ==
    /\ redisStore = [k \in RedisKeys |-> NoEntry]
    /\ redisInstance = "none"
    /\ redisUp = TRUE

RateInit ==
    /\ redisUrl \in BOOLEAN
    /\ inMemoryStore = [k \in RateKeys |-> NoMemEntry]
    /\ rlRes = NoRl
    /\ rlWindow = [k \in RateKeys |-> NoWindow]

Init ==
    /\ now = 0
    /\ CsrfInit
    /\ AuthInit
    /\ RedisInit
    /\ RateInit
    /\ GateInit
    /\ ConcInit
    /\ ExtInit

\* the CSRF layer neither reads the auth-event table nor the counters
InitCsrf == Init /\ authEvents = EmptyTable /\ redisUrl = FALSE

\* sign-in and unlock read no rate-limit configuration
InitSignIn == Init /\ redisUrl = FALSE

InitRate == Init /\ authEvents = EmptyTable

SpecCsrf == InitCsrf /\ [][NextCsrf]_vars

SpecSignIn == InitSignIn /\ [][NextSignIn]_vars

SpecRate == InitRate /\ [][NextRate]_vars

\* a store is configured and may stop answering
InitFallback == InitRate /\ redisUrl = TRUE

SpecFallback == InitFallback /\ [][NextFallback]_vars

InitGate == InitCsrf

SpecGate == InitGate /\ [][NextGate]_vars

\* the configured store refuses connections for the whole run, so that every
\* count is kept by this process
InitConc ==
    /\ now = 0
    /\ CsrfInit
    /\ AuthInit
    /\ authEvents = EmptyTable
    /\ redisStore = [k \in RedisKeys |-> NoEntry]
    /\ redisInstance = "none"
    /\ redisUp = FALSE
    /\ RateInit
    /\ GateInit
    /\ ConcInit
    /\ ExtInit

SpecConc == InitConc /\ [][NextConc]_vars

\* the stores are called without a REDIS_URL
InitStore == InitCsrf

SpecStore == InitStore /\ [][NextStore]_vars

InitTimeout == InitCsrf

SpecTimeout == InitTimeout /\ [][NextTimeout]_vars

InitReplay == InitCsrf

SpecReplay == InitReplay /\ [][NextReplay]_vars

InitClientIp == InitCsrf

SpecClientIp == InitClientIp /\ [][NextClientIp]_vars

\* the shared store is configured and answers
InitCrash == InitFallback

SpecCrash == InitCrash /\ [][NextCrash]_vars

\* no failure is on record when the requests arrive
InitRace == InitCsrf

SpecRace == InitRace /\ [][NextRace]_vars

InitGetRedis == InitRate

SpecGetRedis == InitGetRedis /\ [][NextGetRedis]_vars

-----------------------------------------------------------------------------
(* Claims about the CSRF layer *)

StateChanging == csrfReq # NoReq /\ csrfReq.method \notin SafeMethods

\* the string a header (a cookie) carries, NoStr when it carries none
SentHeader == IF csrfReq.header.form \in {"str", "arr"} THEN csrfReq.header.val ELSE NoStr

SentCookie == IF csrfReq.cookie.form = "str" THEN csrfReq.cookie.val ELSE NoStr

HasToken(s) == s \notin {NoStr, EmptyStr, WsStr}

\* a token whose signature is the server's HMAC of its own timestamp part and
\* whose timestamp reads as a time at most the TTL before t and not after t
MintedAndFresh(s, t) ==
    /\ Len(s) = 2
    /\ s[2] = HmacHex(CsrfSecret, s[1])
    /\ s[1].tag \in {"dec", "decx"}
    /\ 0 <= t - s[1].n
    /\ t - s[1].n <= CSRF_MAX_AGE_MS

\* C1: a state-changing request without a non-empty header token is answered
\* 403 'CSRF token missing' and next is not called, with or without a cookie.
C1_MissingHeaderRejected ==
    (StateChanging /\ SentHeader \in {NoStr, EmptyStr})
        => /\ csrfRes.status = 403
           /\ csrfRes.error = "CSRF token missing"
           /\ ~csrfRes.next

C1_Witness ==
    /\ StateChanging
    /\ SentHeader = NoStr
    /\ HasToken(SentCookie)
    /\ csrfRes.status = 403
    /\ csrfRes.error = "CSRF token missing"

\* C2: with a header token and a cookie token, next is called iff the two
\* are equal byte for byte; otherwise the answer is 403 'CSRF token mismatch'.
C2_DoubleSubmitIffEqual ==
    (StateChanging /\ HasToken(SentHeader) /\ HasToken(SentCookie))
        => IF SentHeader = SentCookie
           THEN csrfRes.next /\ csrfRes.status = 0
           ELSE /\ ~csrfRes.next
                /\ csrfRes.status = 403
                /\ csrfRes.error = "CSRF token mismatch"

C2_Witness ==
    /\ StateChanging
    /\ HasToken(SentHeader)
    /\ HasToken(SentCookie)
    /\ SentHeader # SentCookie
    /\ BufferLength(SentHeader) = BufferLength(SentCookie)
    /\ csrfRes.error = "CSRF token mismatch"

\* C3: with a header token and no cookie token, next is called iff the header
\* token was minted with the server secret and is within the TTL; otherwise
\* the answer is 403 'Invalid or expired CSRF token'.
C3_HeadlessIffSigned ==
    (StateChanging /\ HasToken(SentHeader) /\ SentCookie = NoStr)
        => IF MintedAndFresh(SentHeader, csrfReq.at)
           THEN csrfRes.next /\ csrfRes.status = 0
           ELSE /\ ~csrfRes.next
                /\ csrfRes.status = 403
                /\ csrfRes.error = "Invalid or expired CSRF token"

C3_Witness ==
    /\ StateChanging
    /\ csrfReq.cookie = Undefined
    /\ SentHeader = clientToken
    /\ clientToken # NoStr
    /\ csrfReq.at > clientToken[1].n
    /\ csrfRes.next

\* C6: a token generated at time g is accepted by verifySignedToken at time n
\* exactly when 0 <= n - g <= TTL.
C6_ValidExactlyWithinTtl ==
    \A g \in CsrfTimes :
        (csrfRes.signed # "skipped" /\ SentHeader = GenerateCsrfToken(g))
            => (csrfRes.signed = "accepted"
                    <=> (0 <= csrfReq.at - g /\ csrfReq.at - g <= CSRF_MAX_AGE_MS))

C6_Witness ==
    /\ clientToken # NoStr
    /\ SentHeader = clientToken
    /\ csrfRes.signed = "rejected"
    /\ csrfReq.at - clientToken[1].n = CSRF_MAX_AGE_MS + 1

\* C7: verifySignedToken refuses every token whose signature part is not the
\* server's HMAC-SHA256 of its timestamp part, whatever the times are.
C7_ForgedSignatureRefused ==
    (/\ csrfRes.signed # "skipped"
     /\ Len(SentHeader) = 2
     /\ SentHeader[2] # HmacHex(CsrfSecret, SentHeader[1]))
        => csrfRes.signed = "rejected"

C7_Witness ==
    /\ csrfRes.signed = "rejected"
    /\ clientToken # NoStr
    /\ Len(SentHeader) = 2
    /\ SentHeader[1] = clientToken[1]
    /\ SentHeader[2] = [clientToken[2] EXCEPT !.alt = "flip"]
    /\ csrfReq.at - clientToken[1].n <= CSRF_MAX_AGE_MS

-----------------------------------------------------------------------------
(* Claims about sign-in and account lockout *)

\* a sign-in request that has passed the lockout check
Checked(r) == signIn[r].pc # "idle"

ReachesVerification(r) ==
    /\ signIn[r].status \notin {429, 500}
    /\ signIn[r].pc = "verify" \/ signIn[r].verified

AnsweredLocked(r) ==
    /\ signIn[r].pc = "done"
    /\ signIn[r].status = 429
    /\ signIn[r].error = "Account temporarily locked"
    /\ ~signIn[r].verified

\* C4, as stated: an attempt made while fewer than 5 failures are recorded in
\* the lockout window reaches authService.signIn, and an attempt made once 5
\* are recorded is answered 429 'Account temporarily locked' unverified.
C4_LockedWheneverFiveRecorded ==
    \A r \in ReqIds :
        Checked(r) =>
            IF signIn[r].recorded < LOCKOUT_MAX_ATTEMPTS
            THEN ReachesVerification(r)
            ELSE AnsweredLocked(r)

\* C4: an attempt made while fewer than 5 failures are recorded in the lockout
\* window reaches authService.signIn; an attempt made once 5 are recorded, whose
\* failed-attempt query succeeds, is answered 429 'Account temporarily locked'
\* and authService.signIn is not invoked for it, even with the right password.
C4_LockedWhenFiveCounted ==
    \A r \in ReqIds :
        (Checked(r) /\ ~signIn[r].storeDown) =>
            IF signIn[r].recorded < LOCKOUT_MAX_ATTEMPTS
            THEN ReachesVerification(r)
            ELSE AnsweredLocked(r)

C4_Witness ==
    \E r \in ReqIds :
        /\ signIn[r].recorded >= LOCKOUT_MAX_ATTEMPTS
        /\ ~signIn[r].storeDown
        /\ signIn[r].passwordOk
        /\ AnsweredLocked(r)

C9_SuccessClearsFailures ==
    \A r \in ReqIds :
        (signIn[r].pc = "done" /\ signIn[r].status = 200)
            => GetFailedAttempts(authEvents, dbUp, signIn[r].email,
                                 now - LockoutWindowMs).count = 0

\* C10: when the failed-attempt query throws, the lockout check works with 0
\* failures, the request is not answered as locked and goes on to credential
\* verification, and no error of the query reaches the client.
C10_LockoutCheckFailsOpen ==
    \A r \in ReqIds :
        (Checked(r) /\ signIn[r].storeDown)
            => /\ signIn[r].failedAttempts = 0
               /\ ReachesVerification(r)

C10_Witness ==
    \E r \in ReqIds :
        /\ signIn[r].storeDown
        /\ signIn[r].recorded >= LOCKOUT_MAX_ATTEMPTS
        /\ signIn[r].verified
        /\ signIn[r].status = 200

-----------------------------------------------------------------------------
(* Claims about the rate limiter *)

\* C5: for one key and one policy, on the store-backed and on the in-process
\* path, the limiter passes a request to next exactly when it is among the
\* first maxRequests of its window and answers 429 otherwise, and a request
\* that arrives after the window is over is counted as 1 and passed.
C5_FixedWindowLimit ==
    rlRes # NoRl =>
        /\ rlRes.path = (IF redisUrl THEN "store" ELSE "process")
        /\ rlRes.next <=> rlRes.ordinal <= Options(rlRes.limiter).maxRequests
        /\ rlRes.next <=> rlRes.status = 0
        /\ ~rlRes.next => rlRes.status = 429 /\ rlRes.error = "Too many requests"
        /\ rlRes.count = rlRes.ordinal
        /\ rlRes.opened => rlRes.count = 1 /\ rlRes.next

C5_Witness ==
    /\ rlRes.path = "store"
    /\ rlRes.limiter = "rateLimit"
    /\ rlRes.afterExhausted
    /\ rlRes.count = 1
    /\ rlRes.next
    /\ now > 0

\* C11: when the store-backed increment throws, the request is decided by the
\* in-process counter of the same key with the same rule: it is passed to next
\* iff that count is at most maxRequests and answered 429 otherwise; no error
\* response is produced.
C11_FallbackDecides ==
    (rlRes # NoRl /\ rlRes.path = "fallback") =>
        /\ rlRes.count = inMemoryStore[rlRes.key].count
        /\ rlRes.count >= 1
        /\ rlRes.next <=> rlRes.count <= Options(rlRes.limiter).maxRequests
        /\ rlRes.next <=> rlRes.status = 0
        /\ ~rlRes.next => rlRes.status = 429 /\ rlRes.error = "Too many requests"

C11_Witness ==
    /\ rlRes.path = "fallback"
    /\ rlRes.status = 429
    /\ redisStore[rlRes.key] # NoEntry
    /\ ParseInt(redisStore[rlRes.key].value) < rlRes.count

-----------------------------------------------------------------------------
(* Claims about event logging and the lockout window *)

\* C12: the answer to a verified sign-in is the session (200) for the right
\* password and the authentication error (401) for a wrong one, whether the
\* log write is still pending, succeeds, or fails and is swallowed.
C12_LogNeverChangesOutcome ==
    \A r \in ReqIds :
        (signIn[r].pc = "done" /\ signIn[r].verified) =>
            IF signIn[r].passwordOk
            THEN signIn[r].status = 200 /\ signIn[r].error = ""
            ELSE signIn[r].status = 401 /\ signIn[r].error = "Invalid credentials"

C12_Witness ==
    \E r \in ReqIds :
        /\ signIn[r].pc = "done"
        /\ signIn[r].status = 401
        /\ pendingLogs[<<signIn[r].email, "SIGN_IN_FAILED">>] > 0
        /\ ~dbUp

-----------------------------------------------------------------------------
(* Claims about the request gate *)

\* the place of a stage in the order timeout guard, security headers, CORS,
\* body-size limit, rate limiter, CSRF validation, authentication check,
\* authorization check, handler; 0 for a stage the order does not name
Rank(stage) ==
    CASE stage = "requestTimeout" -> 1
      [] stage = "helmet" -> 2
      [] stage = "cors" -> 3
      [] stage = "express.json" -> 4
      [] stage \in {"rateLimit", "monitoringRateLimit"} -> 5
      [] stage = "validateCsrf" -> 6
      [] stage = "requireAuth" -> 7
      [] stage \in {"authorizeRole", "authorizeSelfOrRole"} -> 8
      [] stage = "handler" -> 9
      [] OTHER -> 0

Ran(stage) == \E i \in 1..Len(gate.ran) : gate.ran[i] = stage

\* C13: on every route the stages run in the order timeout guard, security
\* headers, CORS, body-size limit, rate limiter, CSRF validation,
\* authentication check, authorization check, handler; a rejection ends the
\* request and the handler runs only when no stage rejected.
C13_StagesInStatedOrder ==
    /\ \A i, j \in 1..Len(gate.ran) :
          (i < j /\ Rank(gate.ran[i]) > 0 /\ Rank(gate.ran[j]) > 0)
              => Rank(gate.ran[i]) < Rank(gate.ran[j])
    /\ Ran("handler") => gate.status = 200 /\ gate.pc = "done"
    /\ gate.pc = "done" => gate.status # 0

\* C14: authorizeRole answers 401 to a request without a user and 403 to
\* every other request and never calls next, also when the user's id is the
\* id in the path; no handler behind it is reached.
C14_AuthorizeRoleBlocksAll ==
    /\ authzRes.mw = "authorizeRole" =>
          /\ ~authzRes.next
          /\ authzRes.status = (IF authzRes.user = NoUser THEN 401 ELSE 403)
    /\ Ran("authorizeRole") =>
          /\ gate.pc = "done"
          /\ gate.status = 403
          /\ ~Ran("handler")

C14_Witness ==
    /\ authzRes.mw = "authorizeRole"
    /\ authzRes.user = authzRes.id
    /\ authzRes.status = 403
    /\ ~authzRes.next

\* C19: authorizeSelfOrRole calls next iff a user is attached whose id is
\* req.params.id; without a user it answers 401 'Unauthorized', for any other
\* user 403, whatever role the factory was given.
C19_SelfOnly ==
    authzRes.mw = "authorizeSelfOrRole" =>
        /\ authzRes.next <=> (authzRes.user # NoUser /\ authzRes.user = authzRes.id)
        /\ authzRes.next => authzRes.status = 0
        /\ authzRes.user = NoUser =>
              authzRes.status = 401 /\ authzRes.error = "Unauthorized"
        /\ authzRes.user \notin {NoUser, authzRes.id} => authzRes.status = 403

C19_Witness ==
    /\ authzRes.mw = "authorizeSelfOrRole"
    /\ authzRes.user = "admin-id"
    /\ authzRes.role = "admin"
    /\ authzRes.status = 403

-----------------------------------------------------------------------------
(* Claims about the unlock keys *)

\* C15: the key under which the rate limiter counts a sign-in request is one
\* of the keys the administrative unlock deletes for some user.
C15_UnlockKeysAreCounterKeys ==
    (rlRes # NoRl /\ rlRes.limiter = "rateLimit") =>
        \E email \in Emails : rlRes.key \in UnlockKeys(email)

-----------------------------------------------------------------------------
(* Claims about the lockout window *)

\* C16: the failed-attempt count the lockout check works with is the count of
\* one 15-minute window that started at the first failed sign-in: once that
\* window has elapsed the count is 0 again, and later failures are counted
\* from the failure that opens the next window.
C16_WindowResetsAsAWhole ==
    \A r \in ReqIds :
        (Checked(r) /\ ~signIn[r].storeDown)
            => signIn[r].failedAttempts = signIn[r].inWindow

-----------------------------------------------------------------------------
(* Claims about safe methods *)

\* C17: validateCsrf calls next and sends no response for every GET, HEAD and
\* OPTIONS request, whatever cookie and header tokens it carries.
C17_SafeMethodsPass ==
    (csrfReq # NoReq /\ csrfReq.method \in {"GET", "HEAD", "OPTIONS"})
        => /\ csrfRes.next
           /\ csrfRes.status = 0
           /\ csrfRes.error = ""

C17_Witness ==
    /\ csrfReq # NoReq
    /\ csrfReq.method = "HEAD"
    /\ HasToken(SentHeader)
    /\ HasToken(SentCookie)
    /\ SentHeader # SentCookie
    /\ csrfRes.next

-----------------------------------------------------------------------------
(* Claims about the rate-limit headers *)

\* C18: a denied request gets Retry-After = ceil(resetInMs / 1000), resetInMs
\* being the time left until the key's current window expires, and
\* X-RateLimit-Remaining 0; an allowed request gets X-RateLimit-Remaining
\* max(0, maxRequests - count); on the store-backed and the in-process path.
C18_RateLimitHeaders ==
    rlRes # NoRl =>
        IF rlRes.next
        THEN rlRes.remaining = Max(0, Options(rlRes.limiter).maxRequests - rlRes.count)
        ELSE /\ rlRes.retryAfter = Ceil(rlRes.windowLeft, 1000)
             /\ rlRes.remaining = 0

-----------------------------------------------------------------------------
(* Claims about concurrent requests *)

\* the count the in-process store holds for the key
ConcCounter ==
    IF redisUrl
    THEN IF redisStore[ConcKey] = NoEntry THEN 0 ELSE ParseInt(redisStore[ConcKey].value)
    ELSE inMemoryStore[ConcKey].count

Answered == {h \in Handlers : handlers[h].pc = "done"}

\* C20: N requests to one key handled concurrently by one process within one
\* window lose no update of the in-process counter under any interleaving: the
\* increments return the distinct values 1..N, the counter ends at N, and
\* exactly min(N, maxRequests) requests are allowed.
C20_NoLostUpdate ==
    LET maxRequests == Options("rateLimit").maxRequests
        n           == Cardinality(Handlers)
        allowed     == {h \in Answered : handlers[h].next}
    IN  /\ \A g, h \in Incremented : g # h => handlers[g].count # handlers[h].count
        /\ {handlers[h].count : h \in Incremented} = 1 .. Cardinality(Incremented)
        /\ ConcCounter = Cardinality(Incremented)
        /\ \A h \in Answered :
               /\ handlers[h].next <=> handlers[h].count <= maxRequests
               /\ handlers[h].status = IF handlers[h].next THEN 0 ELSE 429
        /\ Answered = Handlers =>
               Cardinality(allowed) = IF n < maxRequests THEN n ELSE maxRequests

\* the handler that opened the window still awaits expire() while every other
\* request, one more than the limit admits among them, has been counted and
\* answered
C20_Witness ==
    /\ redisUrl
    /\ \E h \in Handlers :
           /\ handlers[h].pc = "expire"
           /\ Answered = Handlers \ {h}
    /\ \E h \in Answered : handlers[h].status = 429
    /\ now > 0

-----------------------------------------------------------------------------
(* Claims about the in-process stores *)

-----------------------------------------------------------------------------
(* Claims about the request timeout *)

\* C22: a request still unanswered when 30 seconds have passed since it
\* arrived is answered 503 'Request timeout' and its connection is destroyed,
\* whichever stage it hangs in: body parsing, rate limiter, CSRF validation,
\* authentication, authorization or handler.
C22_TimeoutCoversEveryStage ==
    (timeoutReq # NoTimeoutReq /\ timeoutReq.stallAt # ""
        /\ now > timeoutReq.arrived + DEFAULT_TIMEOUT_MS)
        => /\ timeoutReq.status = 503
           /\ timeoutReq.error = "Request timeout"
           /\ timeoutReq.destroyed

-----------------------------------------------------------------------------
(* Claims about the lifetime of a CSRF token *)

\* the state-changing request in flight carries in its header the token the
\* server issued at g, with no cookie or with that token as its cookie
Replays(g) ==
    /\ StateChanging
    /\ g \in csrfLog.issued
    /\ SentHeader = GenerateCsrfToken(g)
    /\ SentCookie \in {NoStr, SentHeader}

\* C23: verifying a CSRF token consumes nothing: an issued token is accepted
\* on every state-changing request made within its TTL, however often it was
\* accepted before and whatever happened since (sign-in, sign-out, a newer
\* token issued).
C23_TokenNeverConsumed ==
    \A g \in CsrfTimes :
        (Replays(g) /\ csrfReq.at - g <= CSRF_MAX_AGE_MS)
            => csrfRes.next /\ csrfRes.status = 0

\* the token issued at 0 is accepted once more at the last moment of its TTL,
\* without a cookie, after a sign-out and after a newer token was issued
C23_Witness ==
    /\ Replays(0)
    /\ SentCookie = NoStr
    /\ csrfReq.at = CSRF_MAX_AGE_MS
    /\ csrfLog.uses[0] = MaxUses
    /\ csrfLog.signedOut
    /\ clientToken # SentHeader
    /\ csrfRes.next

-----------------------------------------------------------------------------
(* Claims about the client identity *)

\* the first value of the forwarded-for header, without surrounding white
\* space; the empty text when the header has none
FirstForwarded(fwd) == IF Len(fwd.items) > 0 THEN Trim(fwd.items[1]) ELSE Text("", FALSE)

\* C24: the client identity in the rate-limit key is the first value of the
\* forwarded-for header only when the server trusts exactly one proxy hop and
\* the header yields a value; otherwise it is the raw socket address, and the
\* literal 'unknown' when that is missing as well.
C24_ClientIdentity ==
    clientIp.called =>
        clientIp.ip =
            IF TrustProxy = 1 /\ FirstForwarded(clientIp.fwd).text # ""
            THEN FirstForwarded(clientIp.fwd)
            ELSE IF clientIp.remoteAddress # NoAddress THEN clientIp.remoteAddress
            ELSE Unknown

-----------------------------------------------------------------------------
(* Claims about increment-then-expire *)

-----------------------------------------------------------------------------
(* Claims about concurrent sign-ins *)

\* C26: the lockout counter is incremented and checked atomically: under any
\* interleaving of concurrent sign-in requests for one email, the credentials
\* are verified for at most LOCKOUT_MAX_ATTEMPTS wrong-password attempts
\* within one lockout window.
C26_AtMostFiveVerified ==
    Cardinality({h \in LockHandlers : lockReqs[h].verified}) <= LOCKOUT_MAX_ATTEMPTS

-----------------------------------------------------------------------------
(* Claims about the store singleton *)

Served == {c \in GetCallers : redisCallers.callers[c].pc = "done"}

-----------------------------------------------------------------------------
(* Claims about the client fetcher *)

InitFetcher == InitCsrf

SpecFetcher == InitFetcher /\ [][NextFetcher]_vars

\* C28: a call of fetcher makes at most retries + 1 attempts and repeats an
\* attempt only after a 5xx or 429 response or a network failure, never after
\* a timeout or another 4xx response, whatever the error message of the body.
C28_RetryPolicy ==
    /\ fetchCall.fetches <= fetchCall.retries + 1
    /\ fetchCall.repeatedAfter \subseteq {"5xx", "429", "network"}

-----------------------------------------------------------------------------
(* Claims about the double-submit path *)

\* C29: on the double-submit path neither the signature nor the age of the
\* token is checked: a state-changing request whose non-empty cookie token
\* equals its header token is accepted, and verifySignedToken is not called,
\* also when the token is expired, was never issued by this server, or would
\* be refused by verifySignedToken.
C29_DoubleSubmitUnverified ==
    (StateChanging /\ HasToken(SentCookie) /\ SentCookie = SentHeader)
        => /\ csrfRes.next
           /\ csrfRes.status = 0
           /\ csrfRes.signed = "skipped"

\* accepted with a token that does not carry the server's signature and that
\* verifySignedToken refuses
C29_Witness ==
    /\ StateChanging
    /\ HasToken(SentCookie)
    /\ SentCookie = SentHeader
    /\ \A g \in CsrfTimes : SentHeader # GenerateCsrfToken(g)
    /\ ~MintedAndFresh(SentHeader, csrfReq.at)
    /\ ~VerifySignedToken(SentHeader, csrfReq.at)
    /\ csrfRes.next

-----------------------------------------------------------------------------
(* Claims about the two counters of the rate limiter *)

InitOutage == InitFallback

SpecOutage == InitOutage /\ [][NextOutage]_vars

\* the count a store entry holds
StoreCount(store, key) == IF store[key] = NoEntry THEN 0 ELSE ParseInt(store[key].value)

\* the count the limiter's Map holds for a key at time t
FallbackCount(mem, key, t) ==
    IF mem[key] = NoMemEntry \/ mem[key].reset < t THEN 0 ELSE mem[key].count

\* C30: the fallback counter is independent of the store-backed counter for
\* the same key: a request whose store-backed increment fails is counted in
\* the fallback alone, one above the fallback's own count and whatever count
\* the store holds, and is let through iff that count is within maxRequests; a
\* request counted by the store leaves the fallback as it is and is let
\* through iff the store's count is within maxRequests.
C30_IndependentCounters ==
    [][(rlRes = NoRl /\ rlRes' # NoRl) =>
          LET key == rlRes'.key
              maxRequests == Options(rlRes'.limiter).maxRequests
          IN  IF rlRes'.path = "fallback"
              THEN /\ rlRes'.count = FallbackCount(inMemoryStore, key, now) + 1
                   /\ inMemoryStore'[key].count = rlRes'.count
                   /\ rlRes'.next <=> rlRes'.count <= maxRequests
              ELSE /\ rlRes'.count = StoreCount(redisStore', key)
                   /\ inMemoryStore' = inMemoryStore
                   /\ rlRes'.next <=> rlRes'.count <= maxRequests]_vars

\* the store has let maxRequests requests through, and the fallback lets its
\* own maxRequests-th request through at the same instant
C30_Witness ==
    /\ now = 0
    /\ rlRes # NoRl
    /\ rlRes.path = "fallback"
    /\ rlRes.next
    /\ rlRes.count = Options(rlRes.limiter).maxRequests
    /\ StoreCount(redisStore, rlRes.key) = Options(rlRes.limiter).maxRequests
    /\ rlRes.ordinal = 2 * Options(rlRes.limiter).maxRequests

=============================================================================
